---- MODULE Spec2Model ----
(***************************************************************************)
(* Architecture assembly, length projection, checkpoint migration and the  *)
(* attention decoder of deepspeech.pytorch (src/model.py), as a state      *)
(* machine.  Tensors are modelled by their shapes, parameters by the stamp *)
(* of the initialisation that created them, configuration dictionaries by  *)
(* functions whose DOMAIN is the set of keys present.                      *)
(***************************************************************************)
EXTENDS Integers, Sequences, FiniteSets, TLC

VARIABLES
    model,   \* the DeepSpeech object under study (NoModel before construction)
    net,     \* a ResidualRepeatWav2Letter built directly from a config
    last,    \* the last call made: operation, arguments, outcome
    stamp,   \* number of parameter initialisations performed so far
    ncalls,  \* number of calls made so far
    dec,     \* the attention Decoder object under study
    run,     \* the decode call in progress
    package, \* the last package serialize returned
    bpe      \* the Labels object under study

vars == <<model, net, last, stamp, ncalls, dec, run, package, bpe>>

(***************************************************************************)
(* Bounds of the model.                                                    *)
(***************************************************************************)
MaxCalls == 3      \* calls made on one object
MaxLen   == 3      \* input lengths 1..MaxLen are tried beside the named ones
MaxTrg   == 3      \* target_length of a training batch
MaxEnc   == 3      \* backbone output length fed to the decoder
MaxPieces == 3     \* pieces of a tokenizer model
MaxVocab == 4      \* vocabulary size of a decoder under study

(***************************************************************************)
(* Program constants.                                                      *)
(***************************************************************************)
InputChannels == 161   \* '_in': 161 of the prolog
EpilogKernel  == 31    \* 'kernel_size': 31 of the bridge block
EpilogPadding == 15    \* 'padding': 15 of the bridge block
EmbSize       == 256   \* Decoder(256, size, ...)

Err == 0 - 1
ErrShape == [c |-> Err, l |-> Err]

Get(d, k, dflt) == IF k \in DOMAIN d THEN d[k] ELSE dflt

Min(a, b) == IF a < b THEN a ELSE b
Max(a, b) == IF a > b THEN a ELSE b

(***************************************************************************)
(* Modules.  A leaf module is a record; "parametric" leaves carry the      *)
(* hyper-parameters of nn.Conv1d.                                          *)
(***************************************************************************)
Leaf(t) ==
    [type |-> t, role |-> "main", in_ch |-> 0, out_ch |-> 0, kernel_size |-> 1,
     stride |-> 1, padding |-> 0, dilation |-> 1, groups |-> 1]

Conv1d(i, o, k, s, p, d, g) ==
    [type |-> "Conv1d", role |-> "main", in_ch |-> i, out_ch |-> o, kernel_size |-> k,
     stride |-> s, padding |-> p, dilation |-> d, groups |-> g]

\* Conv1dSamePadding.__init__: padding 0, stride kept as a scalar
Conv1dSamePadding(i, o, k) ==
    [type |-> "Conv1dSamePadding", role |-> "main", in_ch |-> i, out_ch |-> o,
     kernel_size |-> k, stride |-> 1, padding |-> 0, dilation |-> 1, groups |-> 1]

Norm(bnorm, ch) ==
    [Leaf(IF bnorm THEN "BatchNorm1d" ELSE "Identity") EXCEPT !.in_ch = ch, !.out_ch = ch]

\* max(1, int(in_channels * se_ratio)), se_ratio in percent
Squeezed(ch, se_ratio) == Max(1, (ch * se_ratio) \div 100)

\* a convolution of a squeeze-excite gate: it acts on the pooled summary
SE(conv) == [conv EXCEPT !.role = "se"]

\* SCSE: its two same-padding pointwise convolutions, in registration order
SCSE(ch, se_ratio) ==
    << SE(Conv1dSamePadding(ch, Squeezed(ch, se_ratio), 1)),
       SE(Conv1dSamePadding(Squeezed(ch, se_ratio), ch, 1)) >>

HasSE(se_ratio) == 0 < se_ratio /\ se_ratio <= 100

(***************************************************************************)
(* Blocks.  A block is built from keyword arguments (a function from       *)
(* parameter names to values); a keyword the class does not declare is a   *)
(* TypeError.                                                              *)
(***************************************************************************)
SeparableRepeatBlockParams ==
    {"_in", "out", "kernel_size", "stride", "padding", "dilation", "dropout",
     "bnm", "nonlinearity", "bias", "bnorm", "se_ratio", "skip", "repeat",
     "mix_channels", "inverted_bottleneck", "groups"}

ResCNNRepeatBlockParams ==
    {"_in", "out", "kernel_size", "stride", "padding", "dilation", "dropout",
     "bnm", "nonlinearity", "bias", "se_ratio", "skip", "repeat",
     "inverted_bottleneck"}

NoBlock ==
    [cls |-> "none", err |-> "TypeError", in_ch |-> 0, out_ch |-> 0, mid_ch |-> 0,
     kernel_size |-> 0, stride |-> 0, padding |-> 0, dilation |-> 0,
     se_ratio |-> 0, skip |-> FALSE, repeat |-> 0, groups |-> 0,
     bnorm |-> FALSE, mix |-> FALSE]

SeparableRepeatBlock(kw) ==
    IF ~(DOMAIN kw \subseteq SeparableRepeatBlockParams) THEN NoBlock
    ELSE
    LET inv      == Get(kw, "inverted_bottleneck", FALSE)
        out      == Get(kw, "out", 400)
        k        == Get(kw, "kernel_size", 13)
        dilation == Get(kw, "dilation", 1)
    IN  [cls         |-> "SeparableRepeatBlock",
         err         |-> "none",
         in_ch       |-> IF inv THEN Get(kw, "_in", 1) \div 4 ELSE Get(kw, "_in", 1),
         mid_ch      |-> out,
         out_ch      |-> IF inv THEN out \div 4 ELSE out,
         kernel_size |-> k,
         stride      |-> Get(kw, "stride", 1),
         padding     |-> IF dilation > 1 THEN (dilation * (k - 1)) \div 2
                                          ELSE Get(kw, "padding", 0),
         dilation    |-> dilation,
         se_ratio    |-> Get(kw, "se_ratio", 0),
         skip        |-> Get(kw, "skip", FALSE),
         repeat      |-> Get(kw, "repeat", 1),
         groups      |-> Get(kw, "groups", 12),
         bnorm       |-> Get(kw, "bnorm", TRUE),
         mix         |-> Get(kw, "mix_channels", TRUE)]

ResCNNRepeatBlock(kw) ==
    IF ~(DOMAIN kw \subseteq ResCNNRepeatBlockParams) THEN NoBlock
    ELSE
    LET out      == Get(kw, "out", 400)
        k        == Get(kw, "kernel_size", 13)
        dilation == Get(kw, "dilation", 1)
    IN  [cls         |-> "ResCNNRepeatBlock",
         err         |-> "none",
         in_ch       |-> Get(kw, "_in", 1),
         mid_ch      |-> out,
         out_ch      |-> out,
         kernel_size |-> k,
         stride      |-> Get(kw, "stride", 1),
         padding     |-> IF dilation > 1 THEN (dilation * (k - 1)) \div 2
                                          ELSE Get(kw, "padding", 0),
         dilation    |-> dilation,
         se_ratio    |-> Get(kw, "se_ratio", 0),
         skip        |-> Get(kw, "skip", FALSE),
         repeat      |-> Get(kw, "repeat", 1),
         groups      |-> 1,
         bnorm       |-> TRUE,
         mix         |-> FALSE]

\* ResCNNBlock(_in, out, kernel_size, padding, stride, se_ratio, skip)
ResCNNBlock(i, o, k, p, s, se, skip) ==
    [cls |-> "ResCNNBlock", err |-> "none", in_ch |-> i, mid_ch |-> i, out_ch |-> o,
     kernel_size |-> k, stride |-> s, padding |-> p, dilation |-> 1,
     se_ratio |-> se, skip |-> skip, repeat |-> 1, groups |-> 1,
     bnorm |-> TRUE, mix |-> FALSE]

\* channels of the i-th convolution (0-based) of a SeparableRepeatBlock
SepInCh(b, i)  == IF b.repeat = 1 \/ i = 0 THEN b.in_ch ELSE b.mid_ch
SepOutCh(b, i) == IF b.repeat = 1 \/ i = b.repeat - 1 THEN b.out_ch ELSE b.mid_ch

\* groups=groups if (in_ch % groups + out_ch % groups) == 0 else 1
SepGroups(b, i) ==
    IF (SepInCh(b, i) % b.groups) + (SepOutCh(b, i) % b.groups) = 0 THEN b.groups ELSE 1

\* the modules one repetition of a block registers, in forward order
RepeatModules(b, i) ==
    IF b.cls = "SeparableRepeatBlock" THEN
        << Conv1d(SepInCh(b, i), SepOutCh(b, i), b.kernel_size, b.stride, b.padding,
                  b.dilation, SepGroups(b, i)),
           Norm(b.bnorm, SepOutCh(b, i)), Leaf("nonlinearity"), Leaf("Dropout") >>
        \o (IF HasSE(b.se_ratio) THEN SCSE(SepOutCh(b, i), b.se_ratio) ELSE << >>)
        \o (IF b.mix
            THEN << Conv1dSamePadding(SepOutCh(b, i), SepOutCh(b, i), 1),
                    Norm(TRUE, SepOutCh(b, i)), Leaf("nonlinearity"), Leaf("Dropout") >>
            ELSE << >>)
    ELSE IF b.cls = "ResCNNRepeatBlock" THEN
        << Conv1d(IF i = 0 THEN b.in_ch ELSE b.out_ch, b.out_ch, b.kernel_size,
                  b.stride, b.padding, b.dilation, 1),
           Norm(TRUE, b.out_ch), Leaf("nonlinearity"), Leaf("Dropout") >>
        \o (IF HasSE(b.se_ratio) THEN SCSE(b.out_ch, b.se_ratio) ELSE << >>)
    ELSE \* ResCNNBlock: conv, norm, nonlinearity, dropout, _se_reduce, _se_expand
        << Conv1d(b.in_ch, b.out_ch, b.kernel_size, b.stride, b.padding, 1, 1),
           Norm(TRUE, b.out_ch), Leaf("nonlinearity"), Leaf("Dropout") >>
        \o (IF HasSE(b.se_ratio)
            THEN << SE(Conv1dSamePadding(b.out_ch, Squeezed(b.in_ch, b.se_ratio), 1)),
                    SE(Conv1dSamePadding(Squeezed(b.in_ch, b.se_ratio), b.out_ch, 1)) >>
            ELSE << >>)

RECURSIVE BlockModulesFrom(_, _)
BlockModulesFrom(b, i) ==
    IF i >= b.repeat THEN << >>
    ELSE RepeatModules(b, i) \o BlockModulesFrom(b, i + 1)

\* self.layers of a block
BlockModules(b) == BlockModulesFrom(b, 0)


(***************************************************************************)
(* The attention decoder object.  Decoder.__init__ is called with keyword  *)
(* arguments; one it does not declare is a TypeError.                      *)
(***************************************************************************)
DecoderParams ==
    {"emb_size", "hidden_size", "tgt_vocab", "attention", "num_encoder_layers",
     "num_decoder_layers", "dropout", "sos_index"}

NoDecoder ==
    [err |-> "unbuilt", emb_size |-> 0, hidden_size |-> 0, tgt_vocab |-> 0,
     sos_index |-> 0, num_encoder_layers |-> 0, num_decoder_layers |-> 0]

Decoder(kw) ==
    IF ~(DOMAIN kw \subseteq DecoderParams) THEN [NoDecoder EXCEPT !.err = "TypeError"]
    ELSE [err                |-> "none",
          emb_size           |-> kw["emb_size"],
          hidden_size        |-> kw["hidden_size"],
          tgt_vocab          |-> kw["tgt_vocab"],
          sos_index          |-> Get(kw, "sos_index", 299),
          num_encoder_layers |-> Get(kw, "num_encoder_layers", 2),
          num_decoder_layers |-> Get(kw, "num_decoder_layers", 2)]

(***************************************************************************)
(* ResidualRepeatWav2Letter.__init__                                       *)
(***************************************************************************)
\* the keys read as config.<key>, with no default, before anything is built
RequiredKeys ==
    << "size", "cnn_width", "bnorm", "bnm", "dropout", "repeat_layers",
       "kernel_size", "se_ratio", "skip", "decoder_girth" >>

RECURSIVE FirstMissing(_, _)
\* the first key of the sequence that the config lacks ("" when none)
FirstMissing(config, keys) ==
    IF keys = << >> THEN ""
    ELSE IF Head(keys) \notin DOMAIN config THEN Head(keys)
    ELSE FirstMissing(config, Tail(keys))

NoEncoder == [conv1 |-> << >>, conv2 |-> << >>, conv3 |-> << >>, final_conv |-> << >>]

NoNet ==
    [err |-> "unbuilt", key |-> "", layers |-> << >>, has_layers |-> FALSE,
     encoder |-> NoEncoder, denoise |-> FALSE, groups |-> 0,
     decoder_type |-> "", num_classes |-> 0, head |-> "none", head_in |-> 0,
     head_layers |-> 0, decoder |-> NoDecoder, ctc_fc |-> Leaf("none"),
     params |-> 0, head_params |-> 0, frozen |-> FALSE]

Raised(e, k) == [NoNet EXCEPT !.err = e, !.key = k]

GroupsKw(groups) == IF groups > 1 THEN ("groups" :> groups) ELSE << >>

\* what every kwargs dictionary of the constructor shares
CommonKw(config, nonlinearity) ==
    [bnm |-> config["bnm"], bias |-> ~config["bnorm"], dropout |-> config["dropout"],
     nonlinearity |-> nonlinearity]

\* lines 1359-1363
Width0(config) ==
    IF Get(config, "vary_cnn_width", FALSE) THEN config["cnn_width"] \div 2
    ELSE config["cnn_width"]

\* lines 1365-1378
DownsampledBlocks(config) ==
    IF "add_downsample" \notin DOMAIN config THEN {}
    ELSE IF config["add_downsample"] = 2 THEN {1}
    ELSE IF config["add_downsample"] = 4 THEN {1, 2}
    ELSE {}

DownsampledSubblocks(config) ==
    IF "add_downsample" \in DOMAIN config THEN {0} ELSE {}

DilatedSubblocks == {1, 2}
DilationLevel == 2
Repeats == << 2, 2, 1 >>

Bool2Int(b) == IF b THEN 1 ELSE 0

\* line 1432
DilationAt(config, j, sub) ==
    1 + Bool2Int(j \in config["dilated_blocks"]) * Bool2Int(sub \in DilatedSubblocks)
        * (DilationLevel - 1)

\* line 1433
StrideAt(config, j, sub) ==
    1 + Bool2Int(j \in DownsampledBlocks(config))
        * Bool2Int(sub \in DownsampledSubblocks(config)) * 1

Nonlinearity(config) == Get(config, "nonlinearity", "ReLU")
Groups(config) == Get(config, "groups", 1)
Padding(config) == config["kernel_size"] \div 2

\* lines 1393-1400
PrologKw(config) ==
    [_in |-> InputChannels, out |-> Width0(config),
     kernel_size |-> config["kernel_size"], padding |-> Padding(config), stride |-> 2,
     se_ratio |-> 0, skip |-> FALSE, repeat |-> 1, bnorm |-> config["bnorm"]]
    @@ CommonKw(config, Nonlinearity(config)) @@ GroupsKw(Groups(config))

\* lines 1419-1426
DownProjectKw(config) ==
    [_in |-> Width0(config), out |-> Width0(config) \div 4,
     kernel_size |-> config["kernel_size"], padding |-> Padding(config), stride |-> 1,
     se_ratio |-> 0, skip |-> FALSE, repeat |-> 1, bnorm |-> config["bnorm"]]
    @@ CommonKw(config, Nonlinearity(config)) @@ GroupsKw(Groups(config))

\* lines 1437-1446
DownsampleKw(config, w, j, sub) ==
    [_in |-> w, out |-> w, kernel_size |-> config["kernel_size"],
     padding |-> Padding(config), dilation |-> DilationAt(config, j, sub),
     stride |-> StrideAt(config, j, sub), se_ratio |-> 0, skip |-> FALSE, repeat |-> 1,
     inverted_bottleneck |-> Get(config, "inverted_bottleneck", FALSE),
     bnorm |-> config["bnorm"]]
    @@ CommonKw(config, Nonlinearity(config)) @@ GroupsKw(Groups(config))

\* lines 1450-1459
MainKw(config, w, j, sub) ==
    [_in |-> w, out |-> w, kernel_size |-> config["kernel_size"],
     padding |-> Padding(config), dilation |-> DilationAt(config, j, sub),
     stride |-> 1, se_ratio |-> config["se_ratio"], skip |-> config["skip"],
     repeat |-> Repeats[j + 1],
     inverted_bottleneck |-> Get(config, "inverted_bottleneck", FALSE),
     bnorm |-> config["bnorm"]]
    @@ CommonKw(config, Nonlinearity(config)) @@ GroupsKw(Groups(config))

\* the kwargs dictionary bound to the name `kwargs` when line 1465 reads it
KwargsAtTransition(config, w) ==
    IF config["repeat_layers"] \div 3 > 0
        THEN MainKw(config, w, 1, (config["repeat_layers"] \div 3) - 1)
    ELSE IF Get(config, "inverted_bottleneck", FALSE) THEN DownProjectKw(config)
    ELSE PrologKw(config)

\* lines 1465-1470
TransitionKw(config, w) ==
    [skip |-> FALSE, repeat |-> 1, se_ratio |-> 0, _in |-> w, out |-> w * 2]
    @@ KwargsAtTransition(config, w)

\* lines 1478-1484
UpProjectKw(config, w) ==
    [_in |-> w \div 4, out |-> w, kernel_size |-> config["kernel_size"],
     padding |-> Padding(config), stride |-> 1, se_ratio |-> 0, skip |-> FALSE,
     repeat |-> 1]
    @@ CommonKw(config, "ReLU") @@ GroupsKw(Groups(config))

\* lines 1489-1496, 1517-1524, 1539-1546, 1564-1571
EpilogKw(config, w) ==
    [_in |-> w, out |-> config["size"], kernel_size |-> EpilogKernel,
     padding |-> EpilogPadding, stride |-> 1, se_ratio |-> 0, skip |-> FALSE,
     repeat |-> 1, bnorm |-> config["bnorm"]]
    @@ CommonKw(config, Nonlinearity(config)) @@ GroupsKw(Groups(config))

\* lines 1499-1506
PointwiseKw(config) ==
    [_in |-> config["size"], out |-> config["size"], kernel_size |-> 1,
     padding |-> 0, stride |-> 1, se_ratio |-> 0, skip |-> FALSE,
     repeat |-> 1, bnorm |-> config["bnorm"]]
    @@ CommonKw(config, Nonlinearity(config)) @@ GroupsKw(Groups(config))

\* lines 1380-1385
Block(config, kw) ==
    IF Get(config, "separable", FALSE) THEN SeparableRepeatBlock(kw)
    ELSE ResCNNRepeatBlock(kw)

RECURSIVE StageBlocks(_, _, _, _)
\* lines 1430-1462: the blocks of stage j from sub-index sub on, at width w
StageBlocks(config, w, j, sub) ==
    IF sub >= config["repeat_layers"] \div 3 THEN << >>
    ELSE (IF StrideAt(config, j, sub) = 2
          THEN << Block(config, DownsampleKw(config, w, j, sub)) >> ELSE << >>)
         \o << Block(config, MainKw(config, w, j, sub)) >>
         \o StageBlocks(config, w, j, sub + 1)

\* the width in use when stage j starts (line 1474 doubles it after stage 1)
WidthAt(config, j) ==
    IF Get(config, "vary_cnn_width", FALSE) /\ j >= 2 THEN Width0(config) * 2
    ELSE Width0(config)

\* lines 1463-1474
Transition(config, j) ==
    IF Get(config, "vary_cnn_width", FALSE) /\ j = 1
    THEN << Block(config, TransitionKw(config, WidthAt(config, 1))) >>
    ELSE << >>

\* lines 1391-1485: prolog, down-projection, three stages, up-projection
BodyBlocks(config) ==
    << Block(config, PrologKw(config)) >>
    \o (IF Get(config, "inverted_bottleneck", FALSE)
        THEN << Block(config, DownProjectKw(config)) >> ELSE << >>)
    \o StageBlocks(config, WidthAt(config, 0), 0, 0) \o Transition(config, 0)
    \o StageBlocks(config, WidthAt(config, 1), 1, 0) \o Transition(config, 1)
    \o StageBlocks(config, WidthAt(config, 2), 2, 0) \o Transition(config, 2)
    \o (IF Get(config, "inverted_bottleneck", FALSE)
        THEN << Block(config, UpProjectKw(config, WidthAt(config, 3))) >> ELSE << >>)

DecoderType(config) == Get(config, "decoder_type", "pointwise")
NumClasses(config) == Get(config, "num_classes", 0)

\* lines 1487-1598: the bridge blocks the head appends to the backbone
HeadBlocks(config) ==
    LET w == WidthAt(config, 3) IN
    CASE DecoderType(config) = "pointwise" ->
            << Block(config, EpilogKw(config, w)), Block(config, PointwiseKw(config)) >>
      [] DecoderType(config) \in {"plain_gru", "attention", "double_supervision"} ->
            << Block(config, EpilogKw(config, w)) >>
      [] OTHER -> << >>

\* lines 1551-1554: Decoder(256, size, self.num_classes, attention, num_layers=2, ...)
AttentionDecoder(config) ==
    Decoder([emb_size |-> EmbSize, hidden_size |-> config["size"],
             tgt_vocab |-> NumClasses(config), attention |-> "BahdanauAttention",
             num_layers |-> 2, dropout |-> config["dropout"],
             sos_index |-> NumClasses(config) - 2])

\* lines 1591-1595
S2SDecoder(config) ==
    Decoder([emb_size |-> EmbSize, hidden_size |-> config["size"],
             tgt_vocab |-> NumClasses(config), attention |-> "BahdanauAttention",
             num_encoder_layers |-> 2, num_decoder_layers |-> 2,
             dropout |-> config["dropout"], sos_index |-> NumClasses(config) - 2])

\* a variant of CtcFc that keeps the sos/eos class in the CTC projection
CtcFcFullVocab(config) == Conv1d(config["size"], NumClasses(config), 1, 1, 0, 1, 1)

\* lines 1584-1586
CtcFc(config) == Conv1d(config["size"], NumClasses(config) - 1, 1, 1, 0, 1, 1)

\* the error, if any, that building the head raises
HeadError(config) ==
    CASE DecoderType(config) = "pointwise" -> "none"
      [] DecoderType(config) = "transformer" ->
            \* nn.MultiheadAttention: embed_dim must be divisible by num_heads
            IF config["size"] % 8 = 0 THEN "none" ELSE "AssertionError"
      [] DecoderType(config) = "plain_gru" -> "none"
      [] DecoderType(config) = "attention" -> AttentionDecoder(config).err
      [] DecoderType(config) = "double_supervision" ->
            \* a tensor with a negative dimension cannot be created
            IF CtcFc(config).out_ch < 0 THEN "RuntimeError" ELSE S2SDecoder(config).err
      \* line 1598 formats self.decoder, which does not exist on this path
      [] OTHER -> "AttributeError"

RECURSIVE AnyBlockError(_)
AnyBlockError(blocks) ==
    IF blocks = << >> THEN "none"
    ELSE IF Head(blocks).err # "none" THEN Head(blocks).err
    ELSE AnyBlockError(Tail(blocks))

\* lines 1604-1609 and 1103-1108: the four slices of a block sequence
EncoderSegments(modules, repeat_layers) ==
    LET n == repeat_layers \div 3 IN
    [conv1      |-> SubSeq(modules, 1, Min(Len(modules), 1 + 1 * n + 0)),
     conv2      |-> SubSeq(modules, Min(Len(modules), 1 + 1 * n) + 1,
                                    Min(Len(modules), 1 + 2 * n + 1)),
     conv3      |-> SubSeq(modules, Min(Len(modules), 1 + 2 * n + 1) + 1,
                                    Min(Len(modules), 1 + 3 * n + 2)),
     final_conv |-> SubSeq(modules, Min(Len(modules), 1 + 3 * n + 2) + 1, Len(modules))]

\* the constructor: the object built from `config`, its parameters stamped `id`
ResidualRepeatWav2Letter(config, id) ==
    IF FirstMissing(config, RequiredKeys) # ""
        THEN Raised("KeyError", FirstMissing(config, RequiredKeys))
    ELSE IF "add_downsample" \in DOMAIN config /\ config["add_downsample"] \notin {2, 4}
        THEN Raised("AssertionError", "add_downsample")
    ELSE IF Block(config, PrologKw(config)).err # "none"
        THEN Raised(Block(config, PrologKw(config)).err, "Block")
    ELSE IF "dilated_blocks" \notin DOMAIN config
        THEN Raised("KeyError", "dilated_blocks")
    ELSE IF AnyBlockError(BodyBlocks(config)) # "none"
        THEN Raised(AnyBlockError(BodyBlocks(config)), "Block")
    ELSE IF HeadError(config) # "none"
        THEN Raised(HeadError(config), DecoderType(config))
    ELSE
    LET modules == BodyBlocks(config) \o HeadBlocks(config)
        denoise == Get(config, "denoise", FALSE)
    IN  IF denoise /\ Get(config, "inverted_bottleneck", FALSE)
            THEN Raised("AssertionError", "inverted_bottleneck")
        ELSE IF denoise
                /\ Len(modules) # 1 + 3 * (config["repeat_layers"] \div 3) + 2 + 1 + 1
            THEN Raised("AssertionError", "len(modules)")
        ELSE
        [err          |-> "none",
         key          |-> "",
         layers       |-> IF denoise THEN << >> ELSE modules,
         has_layers   |-> ~denoise,
         encoder      |-> IF denoise
                          THEN EncoderSegments(modules, config["repeat_layers"])
                          ELSE NoEncoder,
         denoise      |-> denoise,
         groups       |-> Groups(config),
         decoder_type |-> DecoderType(config),
         num_classes  |-> NumClasses(config),
         head         |-> CASE DecoderType(config) = "transformer" -> "TransformerEncoder"
                            [] DecoderType(config) = "plain_gru" -> "BatchRNN"
                            [] DecoderType(config) = "double_supervision" -> "double_supervision"
                            [] OTHER -> "none",
         head_in      |-> config["size"],
         head_layers  |-> CASE DecoderType(config) \in {"transformer", "plain_gru"} ->
                                 Get(config, "decoder_layers", 2)
                            [] DecoderType(config) = "double_supervision" -> 2
                            [] OTHER -> 0,
         decoder      |-> IF DecoderType(config) = "double_supervision"
                          THEN S2SDecoder(config) ELSE NoDecoder,
         ctc_fc       |-> IF DecoderType(config) = "double_supervision"
                          THEN CtcFc(config) ELSE Leaf("none"),
         params       |-> id,
         head_params  |-> id,
         frozen       |-> FALSE]

(***************************************************************************)
(* Forward pass over shapes.  A tensor is [c |-> channels, l |-> length];  *)
(* ErrShape is a raised shape error.                                       *)
(***************************************************************************)
CeilDiv(a, b) == (a + b - 1) \div b

\* F.conv1d on a tensor of shape x
ConvForward(m, x, padding) ==
    LET n == x.l + 2 * padding - m.dilation * (m.kernel_size - 1) - 1 IN
    IF x = ErrShape \/ x.c # m.in_ch \/ n < 0 THEN ErrShape
    ELSE [c |-> m.out_ch, l |-> (n \div m.stride) + 1]

\* Conv1dSamePadding.forward: pad to ceil(iw / sw) outputs, then convolve
SamePaddingForward(m, x) ==
    LET ow    == CeilDiv(x.l, m.stride)
        pad_w == Max((ow - 1) * m.stride + (m.kernel_size - 1) * m.dilation + 1 - x.l, 0)
    IN  IF x = ErrShape THEN ErrShape
        ELSE ConvForward(m, [c |-> x.c, l |-> x.l + pad_w], 0)

ModuleForward(m, x) ==
    CASE x = ErrShape -> ErrShape
      [] m.role = "se" -> x      \* gates the tensor, shape kept (SCSE.forward)
      [] m.type = "Conv1d" -> ConvForward(m, x, m.padding)
      [] m.type = "Conv1dSamePadding" -> SamePaddingForward(m, x)
      [] m.type = "BatchNorm1d" -> IF x.c = m.in_ch THEN x ELSE ErrShape
      [] OTHER -> x

RECURSIVE ForwardFrom(_, _, _)
\* the modules from the i-th on applied in turn (an error ends the pass)
ForwardFrom(modules, i, x) ==
    IF i > Len(modules) \/ x = ErrShape THEN x
    ELSE LET y == ModuleForward(modules[i], x) IN
         IF y = ErrShape THEN ErrShape ELSE ForwardFrom(modules, i + 1, y)

\* nn.Sequential.forward
SequentialForward(modules, x) == ForwardFrom(modules, 1, x)

\* broadcasting of one dimension of x + inputs
Broadcast(a, b) == IF a = b THEN a ELSE IF a = 1 THEN b ELSE IF b = 1 THEN a ELSE Err

\* x + inputs
Add(x, inputs) ==
    IF x = ErrShape \/ inputs = ErrShape THEN ErrShape
    ELSE IF Broadcast(x.c, inputs.c) = Err \/ Broadcast(x.l, inputs.l) = Err THEN ErrShape
    ELSE [c |-> Broadcast(x.c, inputs.c), l |-> Broadcast(x.l, inputs.l)]

\* SeparableRepeatBlock.forward, ResCNNRepeatBlock.forward, ResCNNBlock.forward
BlockForward(b, x) ==
    IF b.skip THEN Add(SequentialForward(BlockModules(b), x), x)
    ELSE SequentialForward(BlockModules(b), x)

RECURSIVE BlocksForwardFrom(_, _, _)
BlocksForwardFrom(blocks, i, x) ==
    IF i > Len(blocks) \/ x = ErrShape THEN x
    ELSE LET y == BlockForward(blocks[i], x) IN
         IF y = ErrShape THEN ErrShape ELSE BlocksForwardFrom(blocks, i + 1, y)

\* self.layers(x)
BlocksForward(blocks, x) == BlocksForwardFrom(blocks, 1, x)

\* the backbone of a network: its blocks in forward order
Backbone(n) ==
    IF n.denoise
    THEN n.encoder.conv1 \o n.encoder.conv2 \o n.encoder.conv3 \o n.encoder.final_conv
    ELSE n.layers

\* the time dimension the backbone produces on an input of length L (Err: it raises)
RealizedLength(n, L) == BlocksForward(Backbone(n), [c |-> InputChannels, l |-> L]).l

(***************************************************************************)
(* DeepSpeech.get_seq_lens.  The lengths are an integer tensor; `/` on it  *)
(* is integer division on the runtimes that still define it so and true    *)
(* division on the later ones, so a value is kept as a fraction num/den.   *)
(***************************************************************************)
DivModes == {"integer", "true"}

TruncDiv(a, b) == IF a >= 0 THEN a \div b ELSE 0 - ((0 - a) \div b)

\* ((seq_len + 2*padding - dilation*(kernel_size-1) - 1) / stride + 1)
LenStep(v, m, mode) ==
    LET c == 2 * m.padding - m.dilation * (m.kernel_size - 1) - 1 IN
    IF mode = "integer"
    THEN [num |-> TruncDiv(TruncDiv(v.num, v.den) + c, m.stride) + 1, den |-> 1]
    ELSE [num |-> v.num + c * v.den + m.stride * v.den, den |-> v.den * m.stride]

RECURSIVE FoldLensFrom(_, _, _, _)
\* for m in modules: if type(m) == Conv1d: seq_len = ...
FoldLensFrom(modules, i, v, mode) ==
    IF i > Len(modules) THEN v
    ELSE LET w == IF modules[i].type = "Conv1d" THEN LenStep(v, modules[i], mode) ELSE v
         IN  IF w.den = 0 THEN w ELSE FoldLensFrom(modules, i + 1, w, mode)

RECURSIVE FoldLensBlocks(_, _, _, _)
\* the same loop, taken block by block
FoldLensBlocks(blocks, i, v, mode) ==
    IF i > Len(blocks) THEN v
    ELSE LET w == FoldLensFrom(BlockModules(blocks[i]), 1, v, mode)
         IN  IF w.den = 0 THEN w ELSE FoldLensBlocks(blocks, i + 1, w, mode)

FoldLens(modules, v, mode) == FoldLensFrom(modules, 1, v, mode)

\* the Conv1d of the head that modules() visits before self.layers: the head
\* attributes are assigned before self.layers
HeadModules(n) == IF n.ctc_fc.type = "Conv1d" THEN << n.ctc_fc >> ELSE << >>

\* the loop over self.rnns.modules()
ProjectNet(n, v, mode) == FoldLensBlocks(n.layers, 1, FoldLens(HeadModules(n), v, mode), mode)

\* the loop over self.rnns.encoder.modules()
ProjectEncoder(n, v, mode) ==
    FoldLensBlocks(n.encoder.final_conv, 1,
        FoldLensBlocks(n.encoder.conv3, 1,
            FoldLensBlocks(n.encoder.conv2, 1,
                FoldLensBlocks(n.encoder.conv1, 1, v, mode), mode), mode), mode)

\* self.conv: the time axis of the two Conv2d of the legacy front-end
LegacyConv ==
    << Conv1d(1, 32, 11, 2, 5, 1, 1), Conv1d(32, 32, 11, 1, 5, 1, 1) >>

SelfProjectedTags ==
    {"cnn_residual_repeat_sep_bpe",
     "cnn_residual_repeat_sep_down8",
     "cnn_inv_bottleneck_repeat_sep_down8",
     "cnn_residual_repeat_sep_down8_groups8",
     "cnn_residual_repeat_sep_down8_groups8_plain_gru",
     "cnn_residual_repeat_sep_down8_groups8_attention",
     "cnn_residual_repeat_sep_down8_groups8_double_supervision",
     "cnn_residual_repeat_sep_down8_groups8_transformer",
     "cnn_residual_repeat_sep_down8_groups16_transformer",
     "cnn_residual_repeat_sep_down8_groups12_transformer",
     "cnn_residual_repeat_sep_down8_groups12_transformer_variable",
     "cnn_residual_repeat_sep_down8_groups16_transformer_variable",
     "cnn_residual_repeat_sep_down8_groups8_plain_gru_selu_nosc_nobn",
     "cnn_residual_repeat_sep_down8_groups8_plain_gru_selu_nobn"}

DenoiseTag == "cnn_residual_repeat_sep_down8_denoise"

\* seq_len.int()
\* seq_len rounded up instead of truncated
ToIntRoundingUp(v) == CeilDiv(v.num, v.den)

ToInt(v) == TruncDiv(v.num, v.den)

\* get_seq_lens(input_length) of model m (Err: it raises)
get_seq_lens(m, L, mode) ==
    LET v0 == [num |-> L, den |-> 1] IN
    IF m.rnn_type \in SelfProjectedTags
        THEN ToInt(ProjectNet(m.rnns, v0, mode))
    ELSE IF m.rnn_type = DenoiseTag
        THEN IF m.rnns.denoise THEN ToInt(ProjectEncoder(m.rnns, v0, mode))
             ELSE Err     \* self.rnns.encoder does not exist
    ELSE IF m.has_conv THEN ToInt(FoldLens(LegacyConv, v0, mode))
    ELSE Err

(***************************************************************************)
(* ResidualWav2Letter.__init__                                             *)
(***************************************************************************)
ResidualWav2Letter(config, id) ==
    LET k == config["kernel_size"]
        w == config["cnn_width"]
    IN  [NoNet EXCEPT
           !.err = "none",
           !.layers =
               << ResCNNBlock(InputChannels, w, k, k \div 2, 2, 0, FALSE) >>
               \o [i \in 1..config["repeat_layers"] |->
                      ResCNNBlock(w, w, k, k \div 2, 1, config["se_ratio"], config["skip"])]
               \o << ResCNNBlock(w, config["size"], EpilogKernel, EpilogPadding, 1, 0, FALSE),
                     ResCNNBlock(config["size"], config["size"], 1, 0, 1, 0, FALSE) >>,
           !.has_layers = TRUE,
           !.params = id]

\* CNNBlock(_in, out, kernel_size, stride, padding, dropout, bnm): conv, norm,
\* nonlinearity, dropout, no skip connection
CNNBlock(i, o, k, s, p) == [ResCNNBlock(i, o, k, p, s, 0, FALSE) EXCEPT !.cls = "CNNBlock"]

\* input channels of the 17 blocks of LargeCNN, then last_channels
LargeCNNChannels ==
    << InputChannels, 200, 220, 242, 266, 292, 321, 353, 388, 426, 468, 514, 565, 621,
       683, 751, 826, 826 >>

\* LargeCNN.__init__: kernels 13..29, the first block strided, padding 6, 7, 7, 8, 8, ...
LargeCNN(id) ==
    [NoNet EXCEPT
       !.err = "none",
       !.layers = [i \in 1..(Len(LargeCNNChannels) - 1) |->
                      CNNBlock(LargeCNNChannels[i], LargeCNNChannels[i + 1], 12 + i,
                               IF i = 1 THEN 2 ELSE 1, (12 + i) \div 2)],
       !.has_layers = TRUE,
       !.params = id]

(***************************************************************************)
(* DeepSpeech.__init__.  The constructor arguments are a record            *)
(* [rnn_type, labels (their number), rnn_hidden_size, nb_layers,           *)
(*  kernel_size, cnn_width, phoneme_count, decoder_layers, decoder_girth]. *)
(***************************************************************************)
\* the keys every tag's configuration record holds
BaseConfig(a, se_ratio) ==
    [size |-> a.rnn_hidden_size, bnorm |-> TRUE, bnm |-> 10, dropout |-> 0,
     cnn_width |-> a.cnn_width, not_glu |-> TRUE, repeat_layers |-> a.nb_layers,
     kernel_size |-> a.kernel_size, se_ratio |-> se_ratio, skip |-> TRUE]

\* 'separable': True, 'add_downsample': 4, 'dilated_blocks': []
Down8 == [separable |-> TRUE, add_downsample |-> 4, dilated_blocks |-> {}]

\* the DotDict each tag passes to its backbone constructor
TagConfig(a) ==
    LET t  == a.rnn_type
        b  == BaseConfig(a, 20)
        tr == [decoder_type |-> "transformer", decoder_layers |-> a.decoder_layers]
        pg == [groups |-> 8, decoder_type |-> "plain_gru", nonlinearity |-> "SELU",
               bnorm |-> FALSE]
    IN  CASE t = "cnn_residual" -> BaseConfig(a, 25)
          [] t = "cnn_residual_repeat" -> b
          [] t = "cnn_residual_repeat_sep" -> [separable |-> TRUE, dilated_blocks |-> {0}] @@ b
          [] t = "cnn_residual_repeat_sep_bpe" ->
                [separable |-> TRUE, add_downsample |-> 2, dilated_blocks |-> {0}] @@ b
          [] t = "cnn_residual_repeat_sep_down8" -> [groups |-> 12] @@ Down8 @@ b
          [] t = "cnn_residual_repeat_sep_down8_groups8" -> [groups |-> 8] @@ Down8 @@ b
          [] t = "cnn_residual_repeat_sep_down8_groups8_plain_gru" ->
                [groups |-> 8, decoder_type |-> "plain_gru"] @@ Down8 @@ b
          [] t = "cnn_residual_repeat_sep_down8_groups8_transformer" ->
                [groups |-> 8, decoder_girth |-> a.decoder_girth, vary_cnn_width |-> FALSE]
                @@ tr @@ Down8 @@ b
          [] t = "cnn_residual_repeat_sep_down8_groups12_transformer" ->
                [groups |-> 12, vary_cnn_width |-> FALSE] @@ tr @@ Down8 @@ b
          [] t = "cnn_residual_repeat_sep_down8_groups16_transformer" ->
                [groups |-> 16, vary_cnn_width |-> FALSE] @@ tr @@ Down8 @@ b
          [] t = "cnn_residual_repeat_sep_down8_groups12_transformer_variable" ->
                [groups |-> 12, vary_cnn_width |-> TRUE] @@ tr @@ Down8 @@ b
          [] t = "cnn_residual_repeat_sep_down8_groups16_transformer_variable" ->
                [groups |-> 16, vary_cnn_width |-> TRUE] @@ tr @@ Down8 @@ b
          [] t = "cnn_residual_repeat_sep_down8_groups8_plain_gru_selu_nosc_nobn" ->
                [skip |-> FALSE] @@ pg @@ Down8 @@ b
          [] t = "cnn_residual_repeat_sep_down8_groups8_plain_gru_selu_nobn" ->
                pg @@ Down8 @@ b
          [] t = "cnn_residual_repeat_sep_down8_groups8_attention" ->
                [groups |-> 8, decoder_type |-> "attention", num_classes |-> a.labels]
                @@ Down8 @@ b
          [] t = "cnn_residual_repeat_sep_down8_groups8_double_supervision" ->
                [groups |-> 8, decoder_type |-> "double_supervision",
                 num_classes |-> a.labels] @@ Down8 @@ b
          [] t = "cnn_residual_repeat_sep_down8_denoise" -> [denoise |-> TRUE] @@ Down8 @@ b
          [] t = "cnn_inv_bottleneck_repeat_sep_down8" ->
                [inverted_bottleneck |-> TRUE] @@ Down8 @@ b

\* the tags of the dispatch that build a ResidualRepeatWav2Letter
ResidualRepeatTags ==
    SelfProjectedTags \cup {DenoiseTag, "cnn_residual_repeat", "cnn_residual_repeat_sep"}

Tags == ResidualRepeatTags \cup {"cnn_residual", "large_cnn"}

\* the tags that build self.fc (the attention and double-supervision tags do not)
FcTags ==
    Tags \ {"cnn_residual_repeat_sep_down8_groups8_attention",
            "cnn_residual_repeat_sep_down8_groups8_double_supervision"}

\* the tags that build self.fc_phoneme when _phoneme_count exists
PhonemeTags ==
    {"cnn_residual", "cnn_residual_repeat", "cnn_residual_repeat_sep",
     "cnn_residual_repeat_sep_bpe", "cnn_residual_repeat_sep_down8", DenoiseTag,
     "cnn_inv_bottleneck_repeat_sep_down8"}

\* nn.Sequential(nn.Conv1d(in_channels, out_channels, kernel_size=1)), freshly initialised
NoFc == [present |-> FALSE, in_ch |-> 0, out_ch |-> 0, params |-> 0]
Fc(i, o, id) == [present |-> TRUE, in_ch |-> i, out_ch |-> o, params |-> id]

NoModel ==
    [built |-> FALSE, rnn_type |-> "", hidden_size |-> 0, hidden_layers |-> 0,
     labels |-> 0, cnn_width |-> 0, kernel_size |-> 0, decoder_layers |-> 0,
     decoder_girth |-> 0, has_phoneme_count |-> FALSE, phoneme_count |-> 0,
     has_conv |-> FALSE, rnns |-> NoNet, fc |-> NoFc, fc_phoneme |-> NoFc]

\* the backbone the dispatch builds for the arguments
Rnns(a, id) ==
    IF a.rnn_type = "cnn_residual" THEN ResidualWav2Letter(TagConfig(a), id)
    ELSE IF a.rnn_type = "large_cnn" THEN LargeCNN(id)
    ELSE ResidualRepeatWav2Letter(TagConfig(a), id)

\* DeepSpeech(**a): the object, when Rnns(a, id) raised nothing
DeepSpeech(a, id) ==
    [built             |-> TRUE,
     rnn_type          |-> a.rnn_type,
     hidden_size       |-> a.rnn_hidden_size,
     hidden_layers     |-> a.nb_layers,
     labels            |-> a.labels,
     cnn_width         |-> a.cnn_width,
     kernel_size       |-> a.kernel_size,
     decoder_layers    |-> a.decoder_layers,
     decoder_girth     |-> a.decoder_girth,
     has_phoneme_count |-> a.phoneme_count > 0,
     phoneme_count     |-> IF a.phoneme_count > 0 THEN a.phoneme_count ELSE 0,
     has_conv          |-> a.rnn_type # "cnn_residual_repeat_sep_down8_groups8_plain_gru",
     rnns              |-> Rnns(a, id),
     fc                |-> IF a.rnn_type = "large_cnn"   \* size = self.rnns.last_channels
                           THEN Fc(LargeCNNChannels[Len(LargeCNNChannels)], a.labels, id)
                           ELSE IF a.rnn_type \in FcTags
                           THEN Fc(a.rnn_hidden_size, a.labels, id) ELSE NoFc,
     fc_phoneme        |-> IF a.rnn_type \in PhonemeTags /\ a.phoneme_count > 0
                           THEN Fc(a.rnn_hidden_size, a.phoneme_count, id) ELSE NoFc]

(***************************************************************************)
(* The migrations.  Each returns [err, model]: the error raised ("none")   *)
(* and the model as the call leaves it.                                    *)
(***************************************************************************)
\* a variant of add_phonemes_to_model that rebuilds the main projection too
add_phonemes_rebuilding_fc(m, phoneme_count, id) ==
    [err   |-> "none",
     model |-> [m EXCEPT !.has_phoneme_count = TRUE,
                         !.phoneme_count = phoneme_count,
                         !.fc = Fc(m.hidden_size, m.labels, id),
                         !.fc_phoneme = Fc(m.hidden_size, phoneme_count, id)]]

add_phonemes_to_model(m, phoneme_count, id) ==
    [err   |-> "none",
     model |-> [m EXCEPT !.has_phoneme_count = TRUE,
                         !.phoneme_count = phoneme_count,
                         !.fc_phoneme = Fc(m.hidden_size, phoneme_count, id)]]

\* repeat_layers = 12 of the migration
MigrationRepeatLayers == 12

\* a variant of add_denoising_to_model without the loop that disables the gradients
add_denoising_not_freezing(m) ==
    IF m.rnn_type # "cnn_residual_repeat_sep_down8"
    THEN [err |-> "AssertionError", model |-> m]
    ELSE [err   |-> "none",
          model |-> [m EXCEPT
                       !.rnn_type = "cnn_residual_repeat_sep_down8_denoise",
                       !.rnns = [m.rnns EXCEPT
                                   !.encoder = EncoderSegments(m.rnns.layers, 12),
                                   !.denoise = TRUE,
                                   !.layers = << >>,
                                   !.has_layers = FALSE]]]

\* a variant of add_denoising_to_model that writes the new tag before it asserts
add_denoising_retagging_first(m) ==
    IF m.rnn_type # "cnn_residual_repeat_sep_down8"
    THEN [err |-> "AssertionError", model |-> [m EXCEPT !.rnn_type = "cnn_residual_repeat_sep_down8_denoise"]]
    ELSE [err |-> "none", model |-> m]

add_denoising_to_model(m) ==
    IF m.rnn_type # "cnn_residual_repeat_sep_down8"
    THEN [err |-> "AssertionError", model |-> m]
    ELSE [err   |-> "none",
          model |-> [m EXCEPT
                       !.rnn_type = DenoiseTag,
                       !.rnns = [m.rnns EXCEPT
                                   !.encoder = EncoderSegments(m.rnns.layers,
                                                               MigrationRepeatLayers),
                                   !.denoise = TRUE,
                                   !.layers = << >>,
                                   !.has_layers = FALSE,
                                   !.frozen = TRUE]]]

add_s2s_decoder_to_model(m, labels) ==
    IF m.rnn_type # "cnn_residual_repeat_sep_down8_groups8_plain_gru"
    THEN [err |-> "AssertionError", model |-> m]
    ELSE LET d == Decoder([emb_size |-> EmbSize, hidden_size |-> m.hidden_size,
                           tgt_vocab |-> labels, attention |-> "BahdanauAttention",
                           num_layers |-> 2, dropout |-> 10, sos_index |-> labels - 2])
             \* what lines 1129-1134 have already assigned when line 1138 runs
             m1 == [m EXCEPT !.rnn_type = "cnn_residual_repeat_sep_down8_groups8_attention",
                             !.labels = labels,
                             !.rnns = [m.rnns EXCEPT !.num_classes = labels,
                                                     !.decoder_type = "attention"]]
         IN  IF d.err # "none" THEN [err |-> d.err, model |-> m1]
             ELSE [err |-> "none",
                   model |-> [m1 EXCEPT !.rnns = [m1.rnns EXCEPT !.decoder = d,
                                                                 !.head = "Decoder"]]]

(***************************************************************************)
(* serialize and load_model_package.  A state_dict maps the name of each   *)
(* registered parameter group to its shape and to the stamp of its values. *)
(***************************************************************************)
Entry(present, name, shape, value) ==
    IF present THEN name :> [shape |-> shape, value |-> value] ELSE << >>

\* model.state_dict()
state_dict(m) ==
    Entry(m.has_conv, "conv", "MaskConv", m.rnns.params)
    @@ Entry(m.rnns.has_layers, "rnns.layers", m.rnns.layers, m.rnns.params)
    @@ Entry(m.rnns.denoise, "rnns.encoder", m.rnns.encoder, m.rnns.params)
    @@ Entry(m.rnns.denoise, "rnns.denoise", "LinkNetDenoising", m.rnns.head_params)
    @@ Entry(m.rnns.head # "none", "rnns.decoder",
             <<m.rnns.head, m.rnns.head_in, m.rnns.head_layers>>, m.rnns.head_params)
    @@ Entry(m.fc.present, "fc", <<m.fc.in_ch, m.fc.out_ch>>, m.fc.params)
    @@ Entry(m.fc_phoneme.present, "fc_phoneme",
             <<m.fc_phoneme.in_ch, m.fc_phoneme.out_ch>>, m.fc_phoneme.params)

Shapes(sd) == [name \in DOMAIN sd |-> sd[name].shape]

NoPackage ==
    [present |-> FALSE, hidden_size |-> 0, hidden_layers |-> 0, rnn_type |-> "",
     labels |-> 0, cnn_width |-> 0, decoder_layers |-> 0, kernel_size |-> 0,
     decoder_girth |-> 0, has_phoneme_count |-> FALSE, phoneme_count |-> 0,
     state_dict |-> << >>]

\* serialize(model): the package dictionary
serialize(m) ==
    [present           |-> TRUE,
     hidden_size       |-> m.hidden_size,
     hidden_layers     |-> m.hidden_layers,
     rnn_type          |-> m.rnn_type,
     labels            |-> m.labels,
     cnn_width         |-> m.cnn_width,
     decoder_layers    |-> m.decoder_layers,
     kernel_size       |-> m.kernel_size,
     decoder_girth     |-> m.decoder_girth,
     has_phoneme_count |-> m.has_phoneme_count,
     phoneme_count     |-> m.phoneme_count,
     state_dict        |-> state_dict(m)]

\* the kwargs load_model_package passes to the constructor
PackageKwargs(p) ==
    [rnn_type        |-> p.rnn_type,
     labels          |-> p.labels,
     rnn_hidden_size |-> p.hidden_size,
     nb_layers       |-> p.hidden_layers,
     kernel_size     |-> p.kernel_size,
     cnn_width       |-> p.cnn_width,
     phoneme_count   |-> IF p.has_phoneme_count THEN p.phoneme_count ELSE 0,
     decoder_layers  |-> p.decoder_layers,
     decoder_girth   |-> p.decoder_girth]

\* model.load_state_dict(sd): the values of sd in the parameters of m
load_state_dict(m, sd) ==
    [m EXCEPT
       !.rnns = [m.rnns EXCEPT
                   !.params = IF "rnns.layers" \in DOMAIN sd THEN sd["rnns.layers"].value
                              ELSE IF "rnns.encoder" \in DOMAIN sd
                                   THEN sd["rnns.encoder"].value ELSE @,
                   !.head_params = IF "rnns.decoder" \in DOMAIN sd
                                   THEN sd["rnns.decoder"].value
                                   ELSE IF "rnns.denoise" \in DOMAIN sd
                                        THEN sd["rnns.denoise"].value ELSE @],
       !.fc = IF m.fc.present THEN [@ EXCEPT !.params = sd["fc"].value] ELSE @,
       !.fc_phoneme = IF m.fc_phoneme.present
                      THEN [@ EXCEPT !.params = sd["fc_phoneme"].value] ELSE @]

\* load_model_package(package): [err, key, model]; the constructor may raise, and a
\* strict load_state_dict raises when names or shapes differ
load_model_package(p, id) ==
    LET a == PackageKwargs(p)
        r == Rnns(a, id)
    IN  IF r.err # "none" THEN [err |-> r.err, key |-> r.key, model |-> NoModel]
        ELSE IF Shapes(state_dict(DeepSpeech(a, id))) # Shapes(p.state_dict)
             THEN [err |-> "RuntimeError", key |-> "state_dict", model |-> NoModel]
        ELSE [err |-> "none", key |-> "",
              model |-> load_state_dict(DeepSpeech(a, id), p.state_dict)]

(***************************************************************************)
(* The calls.  `last` records the call just made: its operation, its       *)
(* arguments, the error it raised ("none") and the value it returned,      *)
(* beside the operation and arguments of the call before it.               *)
(***************************************************************************)
NoArgs ==
    [rnn_type |-> "", labels |-> 0, rnn_hidden_size |-> 0, nb_layers |-> 0,
     kernel_size |-> 0, cnn_width |-> 0, phoneme_count |-> 0, decoder_layers |-> 0,
     decoder_girth |-> 0]

NoCall ==
    [op |-> "none", err |-> "none", key |-> "", args |-> NoArgs, L |-> 0, mode |-> "",
     value |-> 0, prev |-> "none", prev_args |-> NoArgs, prev_err |-> "none"]

Call(op, err, key, args, L, mode, value) ==
    [op |-> op, err |-> err, key |-> key, args |-> args, L |-> L, mode |-> mode,
     value |-> value, prev |-> last.op, prev_args |-> last.args, prev_err |-> last.err]

\* input lengths tried
Lengths == (1..MaxLen) \cup {7, 100, 800}

\* constructor arguments tried
Depths      == {2, 3, 12}
KernelSizes == {4, 7}
Widths      == {512, 768}
LabelCounts == {33}

\* LargeCNN reads neither the depth, the kernel size nor the width
ArgsSet ==
    [rnn_type : Tags \ {"large_cnn"}, labels : LabelCounts, rnn_hidden_size : {512},
     nb_layers : Depths, kernel_size : KernelSizes, cnn_width : Widths,
     phoneme_count : {0, 2}, decoder_layers : {4}, decoder_girth : {1}]
    \cup [rnn_type : {"large_cnn"}, labels : LabelCounts, rnn_hidden_size : {512},
           nb_layers : {12}, kernel_size : {7}, cnn_width : {512},
           phoneme_count : {0, 2}, decoder_layers : {4}, decoder_girth : {1}]

\* model = DeepSpeech(**a)
NewDeepSpeech(a) ==
    /\ ~model.built
    /\ ncalls = 0
    /\ LET r == Rnns(a, stamp + 1) IN
       /\ model' = IF r.err = "none" THEN DeepSpeech(a, stamp + 1) ELSE model
       /\ stamp' = IF r.err = "none" THEN stamp + 1 ELSE stamp
       /\ last' = Call("DeepSpeech", r.err, r.key, a, 0, "", 0)
    /\ ncalls' = ncalls + 1
    /\ UNCHANGED <<net, dec, run, package, bpe>>

\* model.get_seq_lens(torch.IntTensor([L]))
GetSeqLens(L, mode) ==
    /\ model.built
    /\ ncalls < MaxCalls
    /\ LET v == get_seq_lens(model, L, mode) IN
       last' = Call("get_seq_lens", IF v = Err THEN "AttributeError" ELSE "none", "",
                    NoArgs, L, mode, v)
    /\ ncalls' = ncalls + 1
    /\ UNCHANGED <<model, net, stamp, dec, run, package, bpe>>

\* DeepSpeech.add_phonemes_to_model(model, phoneme_count)
AddPhonemes(phoneme_count) ==
    /\ model.built
    /\ ncalls < MaxCalls
    /\ LET r == add_phonemes_to_model(model, phoneme_count, stamp + 1) IN
       /\ model' = r.model
       /\ last' = Call("add_phonemes_to_model", r.err, "",
                       [NoArgs EXCEPT !.phoneme_count = phoneme_count], 0, "", 0)
    /\ stamp' = stamp + 1
    /\ ncalls' = ncalls + 1
    /\ UNCHANGED <<net, dec, run, package, bpe>>

\* DeepSpeech.add_denoising_to_model(model)
AddDenoising ==
    /\ model.built
    /\ ncalls < MaxCalls
    /\ LET r == add_denoising_to_model(model) IN
       /\ model' = r.model
       /\ last' = Call("add_denoising_to_model", r.err, "", NoArgs, 0, "", 0)
    /\ ncalls' = ncalls + 1
    /\ UNCHANGED <<net, stamp, dec, run, package, bpe>>

\* DeepSpeech.add_s2s_decoder_to_model(model, labels)
AddS2SDecoder(labels) ==
    /\ model.built
    /\ ncalls < MaxCalls
    /\ LET r == add_s2s_decoder_to_model(model, labels) IN
       /\ model' = r.model
       /\ last' = Call("add_s2s_decoder_to_model", r.err, "",
                       [NoArgs EXCEPT !.labels = labels], 0, "", 0)
    /\ ncalls' = ncalls + 1
    /\ UNCHANGED <<net, stamp, dec, run, package, bpe>>

\* the tags of the first branch of forward that this model builds
RnnsForwardTags ==
    Tags \ {"cnn_residual_repeat_sep_down8_groups8_attention",
            "cnn_residual_repeat_sep_down8_groups8_double_supervision",
            "cnn_residual_repeat_sep_down8_denoise"}

NoOutput == [outs |-> << >>, T |-> 0, T_phoneme |-> 0, output_lengths |-> 0]

\* the channel count leaving the last block of a backbone
LastWidth(n) == Backbone(n)[Len(Backbone(n))].out_ch

\* the channel count self.rnns returns: the recurrent and transformer heads keep
\* their input width
OutWidth(n) == IF n.head = "none" THEN LastWidth(n) ELSE n.head_in

\* what forward raises ("none") on a batch of length L
ForwardError(m, L, mode) ==
    IF get_seq_lens(m, L, mode) = Err THEN "AttributeError"
    ELSE IF RealizedLength(m.rnns, L) = Err THEN "RuntimeError"
    \* the head is fed a width it was not built for
    ELSE IF m.rnns.head # "none" /\ LastWidth(m.rnns) # m.rnns.head_in THEN "RuntimeError"
    ELSE IF m.fc.present /\ m.fc.in_ch # OutWidth(m.rnns) THEN "RuntimeError"
    ELSE IF m.rnn_type \in RnnsForwardTags
        THEN (IF m.has_phoneme_count /\ ~m.fc_phoneme.present THEN "AttributeError"
              ELSE IF m.has_phoneme_count /\ m.fc_phoneme.in_ch # OutWidth(m.rnns)
                  THEN "RuntimeError"
              ELSE "none")
    ELSE IF m.rnn_type = "cnn_residual_repeat_sep_down8_denoise"
        \* x_phoneme is assigned in the first branch only
        THEN (IF m.has_phoneme_count THEN "UnboundLocalError" ELSE "none")
    ELSE "none"

\* DeepSpeech.forward(x, lengths) on a batch of length L: [err, value]; the value
\* names the tensors returned, with the time dimension of the logits.  The
\* recurrent and transformer decoders and LinkNetDenoising keep the time dimension.
forward(m, L, mode) ==
    LET e  == ForwardError(m, L, mode)
        T  == RealizedLength(m.rnns, L)
        ol == get_seq_lens(m, L, mode)
    IN  IF e # "none" THEN [err |-> e, value |-> NoOutput]
        ELSE IF m.rnn_type = "cnn_residual_repeat_sep_down8_groups8_attention"
            THEN [err |-> "none",
                  value |-> [NoOutput EXCEPT !.outs = <<"x", "output_lengths">>,
                                             !.T = T, !.output_lengths = ol]]
        ELSE IF m.rnn_type = "cnn_residual_repeat_sep_down8_groups8_double_supervision"
            THEN [err |-> "none",
                  value |-> [NoOutput EXCEPT
                               !.outs = <<"ctc_out", "s2s_out", "output_lengths">>,
                               !.T = T, !.output_lengths = ol]]
        ELSE IF m.has_phoneme_count
            THEN [err |-> "none",
                  value |-> [outs |-> <<"x", "outs", "output_lengths",
                                        "x_phoneme", "outs_phoneme">>,
                             T |-> T, T_phoneme |-> T, output_lengths |-> ol]]
        ELSE IF m.rnn_type = "cnn_residual_repeat_sep_down8_denoise"
            THEN [err |-> "none",
                  value |-> [NoOutput EXCEPT
                               !.outs = <<"x", "outs", "output_lengths", "denoise_mask">>,
                               !.T = T, !.output_lengths = ol]]
        ELSE [err |-> "none",
              value |-> [NoOutput EXCEPT !.outs = <<"x", "outs", "output_lengths">>,
                                         !.T = T, !.output_lengths = ol]]

\* model(x, lengths) on a batch of length L
Forward(L, mode) ==
    /\ model.built
    /\ ncalls < MaxCalls
    /\ LET r == forward(model, L, mode) IN
       last' = Call("forward", r.err, "", NoArgs, L, mode, r.value)
    /\ ncalls' = ncalls + 1
    /\ UNCHANGED <<model, net, stamp, dec, run, package, bpe>>

\* package = DeepSpeech.serialize(model)
Serialize ==
    /\ model.built
    /\ package # serialize(model)
    /\ package' = serialize(model)
    /\ UNCHANGED <<model, net, last, stamp, ncalls, dec, run, bpe>>

\* model = DeepSpeech.load_model_package(package); a raise leaves `model` bound
\* to the object it named before
LoadModelPackage ==
    /\ package.present
    /\ ncalls < MaxCalls
    /\ LET r == load_model_package(package, stamp + 1) IN
       /\ model' = IF r.err = "none" THEN r.model ELSE model
       /\ last' = Call("load_model_package", r.err, r.key, PackageKwargs(package), 0, "", 0)
    /\ stamp' = stamp + 1
    /\ ncalls' = ncalls + 1
    /\ UNCHANGED <<net, dec, run, package, bpe>>

(***************************************************************************)
(* The backbone constructor called directly with a configuration record.   *)
(***************************************************************************)
\* a key that is present only when it is set
Opt(key, present, val) == IF present THEN key :> val ELSE << >>

Without(config, key) == [x \in (DOMAIN config) \ {key} |-> config[x]]

NetDepths  == {2, 3, 6}
NetKernels == {3, 4}

NetBase(depth, k, skip, dilated) ==
    [size |-> 512, cnn_width |-> 512, bnorm |-> TRUE, bnm |-> 10, dropout |-> 0,
     repeat_layers |-> depth, kernel_size |-> k, se_ratio |-> 20, skip |-> skip,
     decoder_girth |-> 1, separable |-> TRUE, dilated_blocks |-> dilated]

\* configurations varying the structure of the backbone under the pointwise head
StructureConfigs ==
    { Opt("add_downsample", ds > 0, ds) @@ Opt("groups", g > 0, g)
      @@ Opt("inverted_bottleneck", inv, TRUE) @@ Opt("vary_cnn_width", vary, TRUE)
      @@ NetBase(depth, k, skip, dilated) :
        depth \in NetDepths, k \in NetKernels, skip \in BOOLEAN, dilated \in {{}, {0}},
        ds \in {0, 2, 3, 4}, g \in {0, 8}, inv \in BOOLEAN, vary \in BOOLEAN }

\* configurations varying the head and the vocabulary (Err: no 'num_classes' key)
HeadConfigs ==
    { [decoder_type |-> dt, add_downsample |-> 4, groups |-> 8, cnn_width |-> w]
      @@ Opt("num_classes", nc >= 0, nc) @@ NetBase(depth, 3, TRUE, {}) :
        dt \in {"plain_gru", "transformer", "attention", "double_supervision", "lookahead"},
        nc \in {Err} \cup (0..MaxVocab), depth \in {2, 3}, w \in Widths }

\* the denoising layout, and records lacking a key the constructor reads
OtherConfigs ==
    { [denoise |-> TRUE, add_downsample |-> ds] @@ Opt("inverted_bottleneck", inv, TRUE)
      @@ NetBase(depth, 3, TRUE, {}) : ds \in {2, 4}, inv \in BOOLEAN, depth \in NetDepths }
    \cup { Without([add_downsample |-> 4] @@ NetBase(depth, 3, TRUE, {}), key) :
             key \in {"decoder_girth", "separable", "dilated_blocks"}, depth \in NetDepths }

NetConfigs == StructureConfigs \cup HeadConfigs \cup OtherConfigs

\* net = ResidualRepeatWav2Letter(DotDict(config))
NewBackbone(config) ==
    /\ net.err = "unbuilt"
    /\ ncalls = 0
    /\ LET r == ResidualRepeatWav2Letter(config, stamp + 1) IN
       /\ net' = IF r.err = "none" THEN r ELSE net
       /\ stamp' = IF r.err = "none" THEN stamp + 1 ELSE stamp
       /\ last' = Call("ResidualRepeatWav2Letter", r.err, r.key, config, 0, "", 0)
    /\ ncalls' = ncalls + 1
    /\ UNCHANGED <<model, dec, run, package, bpe>>

\* the backbone blocks of net run on a batch of length L
RunBackbone(L) ==
    /\ net.err = "none"
    /\ ncalls < MaxCalls
    /\ LET v == RealizedLength(net, L) IN
       last' = Call("forward", IF v = Err THEN "RuntimeError" ELSE "none", "",
                    last.args, L, "", v)
    /\ ncalls' = ncalls + 1
    /\ UNCHANGED <<model, net, stamp, dec, run, package, bpe>>

(***************************************************************************)
(* The forward pass of the double-supervision head.  A tensor is the       *)
(* module that produced it (src) and its dimensions in order, each a name  *)
(* and a size; permute reorders the dimensions as torch does.              *)
(***************************************************************************)
Dim(ax, n) == [ax |-> ax, n |-> n]

\* x.permute(p): dimension i of the result is dimension p[i] of x (counted from 0)
Permute(x, p) == [x EXCEPT !.dims = [i \in 1..Len(p) |-> x.dims[p[i] + 1]]]

\* a variant of S2SInput that reads the output of the backbone
S2SInputFromBackbone(ctc_states, cnn_states) == Permute(cnn_states, << 0, 2, 1 >>)

\* the tensor handed to s2s_decoder: ctc_states.permute(1, 0, 2)
S2SInput(ctc_states, cnn_states) == Permute(ctc_states, << 1, 0, 2 >>)

\* lines 1655-1673 on a batch of N inputs of length L; trg_len is the length of
\* the targets in training mode and 0 in evaluation mode, where none is read
double_supervision_forward(n, N, L, trg_len) ==
    LET T          == RealizedLength(n, L)
        cnn_states == [src |-> "layers",
                       dims |-> << Dim("N", N), Dim("C", LastWidth(n)), Dim("T", T) >>]
        ctc_in     == Permute(cnn_states, << 2, 0, 1 >>)
        \* two BatchRNN(input_size=size, hidden_size=size, batch_first=False),
        \* the two directions summed: [T, N, size] -> [T, N, size]
        rnn_ok     == ctc_in.dims = << Dim("T", T), Dim("N", N), Dim("C", n.head_in) >>
        ctc_states == [src |-> "ctc_decoder", dims |-> ctc_in.dims]
        fc_in      == Permute(ctc_states, << 1, 2, 0 >>)
        \* nn.Conv1d(size, num_classes - 1, kernel_size=1) on [N, C, T]
        fc_ok      == fc_in.dims = << Dim("N", N), Dim("C", n.ctc_fc.in_ch), Dim("T", T) >>
        fc_out     == [src |-> "ctc_fc",
                       dims |-> << Dim("N", N), Dim("C", n.ctc_fc.out_ch), Dim("T", T) >>]
        ctc_out    == Permute(fc_out, << 0, 2, 1 >>)
        s2s_in     == S2SInput(ctc_states, cnn_states)
        \* Decoder: batch_first GRUs of hidden_size on [B, M, D]
        s2s_ok     == s2s_in.dims = << Dim("N", N), Dim("T", T), Dim("C", n.decoder.hidden_size) >>
        s2s_out    == [src |-> "s2s_decoder",
                       dims |-> << Dim("N", N),
                                   Dim("T", IF trg_len > 0 THEN trg_len ELSE T + 1),
                                   Dim("C", n.decoder.tgt_vocab) >>]
    IN  IF T = Err \/ ~rnn_ok \/ ~fc_ok \/ ~s2s_ok
        THEN [err |-> "RuntimeError", outs |-> << >>, T |-> T, fc_in |-> "", s2s_in |-> ""]
        \* inference embeds sos_index = num_classes - 2, which must be an index
        ELSE IF trg_len = 0 /\ n.decoder.sos_index < 0
        THEN [err |-> "IndexError", outs |-> << >>, T |-> T, fc_in |-> "", s2s_in |-> ""]
        ELSE [err |-> "none", outs |-> << ctc_out, s2s_out >>, T |-> T,
              fc_in |-> fc_in.src, s2s_in |-> s2s_in.src]

\* net(x, trg) of a network with the double-supervision head
DoubleSupervisionForward(L, N, trg_len) ==
    /\ net.err = "none" /\ net.decoder_type = "double_supervision"
    /\ ncalls < MaxCalls
    /\ LET r == double_supervision_forward(net, N, L, trg_len) IN
       last' = Call("double_supervision", r.err, "", last.args, L,
                    IF trg_len > 0 THEN "train" ELSE "eval",
                    [N |-> N, trg_len |-> trg_len, T |-> r.T, outs |-> r.outs,
                     fc_in |-> r.fc_in, s2s_in |-> r.s2s_in])
    /\ ncalls' = ncalls + 1
    /\ UNCHANGED <<model, net, stamp, dec, run, package, bpe>>

(***************************************************************************)
(* Decoder.train_batch and Decoder.inference, one loop iteration per step. *)
(* A token is an index below tgt_vocab; the hidden state is named by the   *)
(* step that produced it (0: the final state of the bridge).               *)
(***************************************************************************)
NoRun ==
    [mode |-> "idle", call |-> "none", B |-> 0, M |-> 0, max_len |-> 0, i |-> 0, trg |-> << >>,
     cur |-> << >>, fed |-> << >>, emitted |-> << >>, hidden |-> 0,
     src_mask |-> << >>, rows |-> 0, out_rows |-> 0, sos_prob |-> << >>,
     proj_key |-> 0, hidden_in |-> << >>, keys_in |-> << >>,
     hidden_deps |-> << >>, token_deps |-> << >>, valid |-> << >>]

BatchSizes == {1, 2}
DecoderVocab == {3}

Tokens(d) == 0..(d.tgt_vocab - 1)

\* torch.ones(cnn_states.size(0), cnn_states.size(1))
Ones(B, M) == [b \in 1..B |-> [t \in 1..M |-> 1]]

\* the frames of each item of a batch that are not padding: the batch is padded to
\* its longest item, which is taken to be the first
ValidLengths(B, M) == {[b \in 1..B |-> IF b = 1 THEN M ELSE v] : v \in 1..M}

\* a variant of SrcMask that marks the padding of every item invalid
SrcMaskFromLengths(B, M, valid) ==
    [b \in 1..B |-> [t \in 1..M |-> IF t <= valid[b] THEN 1 ELSE 0]]

\* src_mask of train_batch and of inference: built from the two sizes of
\* cnn_states alone; neither method receives the valid lengths
SrcMask(B, M, valid) == Ones(B, M)

(***************************************************************************)
(* Which sequences of the batch a value was computed from.  A tensor is    *)
(* its number of dimensions nd, the position bax of its batch dimension    *)
(* and, for every batch row b, the set deps[b] of the input rows the row   *)
(* was computed from.  An operation that combines entries along dimension  *)
(* dim leaves the rows apart unless dim is the batch dimension.  Each      *)
(* operation binds its operands once (v, w) before it reads them.          *)
(***************************************************************************)
Tensor(nd, bax, deps) == [nd |-> nd, bax |-> bax, deps |-> deps]

OwnRows(B) == [b \in 1..B |-> {b}]
NoRows(B)  == [b \in 1..B |-> {}]

\* a negative dim counts from the last dimension
Axis(x, dim) == IF dim < 0 THEN x.nd + dim ELSE dim

\* softmax, max, a linear layer or a recurrence along dimension dim
Along(x, dim) ==
    CHOOSE r \in
        { IF Axis(v, dim) = v.bax
          THEN [v EXCEPT !.deps = [b \in DOMAIN v.deps |->
                                      UNION {v.deps[c] : c \in DOMAIN v.deps}]]
          ELSE v : v \in {x} } : TRUE

\* x + y, torch.cat([x, y], dim) off the batch dimension, torch.bmm(x, y)
Joined(x, y) ==
    CHOOSE r \in
        { [v EXCEPT !.deps = [b \in DOMAIN v.deps |-> v.deps[b] \cup w.deps[b]]] :
            v \in {x}, w \in {y} } : TRUE

\* x[-1], x[:, -1], x.squeeze(dim): dimension dim is indexed away
Drop(x, dim) ==
    CHOOSE r \in
        { [v EXCEPT !.nd = @ - 1, !.bax = IF Axis(v, dim) < v.bax THEN @ - 1 ELSE @] :
            v \in {x} } : TRUE

\* x.unsqueeze(dim)
Unsqueeze(x, dim) ==
    CHOOSE r \in
        { [v EXCEPT !.nd = @ + 1, !.bax = IF dim <= v.bax THEN @ + 1 ELSE @] :
            v \in {x} } : TRUE

\* nn.GRU(..., batch_first): the recurrence runs along the time dimension of the
\* input, dimension 1 when batch_first; the state h is [layers, batch, hidden]
GRU(x, h, batch_first) ==
    LET rec == Along(x, IF batch_first THEN 1 ELSE 0)
        out == Joined(rec, h)
    IN  [output |-> out, hidden |-> Tensor(3, 1, out.deps)]

\* lines 3044-3045: the bridge run over cnn_states [B, M, D] from a zero state
init_rnn_states(cnn_states) ==
    GRU(cnn_states, Tensor(3, 1, NoRows(Len(cnn_states.deps))), TRUE)

\* lines 2841-2868: BahdanauAttention.forward, the context vector
AttentionContext(query, proj_key, value, mask) ==
    LET q       == Along(query, -1)
        energy  == Along(Joined(q, proj_key), -1)
        scores  == Unsqueeze(Drop(energy, 2), 1)
        masked  == Joined(scores, mask)
        alphas  == Along(masked, -1)
    IN  Joined(alphas, value)

\* lines 2923-2942: Decoder.forward_step
forward_step(prev_embed, encoder_hidden, src_mask, proj_key, hidden) ==
    LET query      == Unsqueeze(Drop(hidden, 0), 1)
        context    == AttentionContext(query, proj_key, encoder_hidden, src_mask)
        rnn_input  == Joined(prev_embed, context)
        r          == GRU(rnn_input, hidden, TRUE)
        pre_output == Along(Joined(Joined(prev_embed, r.output), context), -1)
    IN  [output |-> r.output, hidden |-> r.hidden, pre_output |-> pre_output]

\* Generator.forward: a linear layer and log_softmax(dim=-1)
Generator(x) == Along(Along(x, -1), -1)

\* a variant of ArgMax that takes the maximum over the batch dimension
ArgMaxOverBatch(prob) == Along(prob, 0)

\* _, next_word = torch.max(prob, dim=1) on prob [B, V]
ArgMax(prob) == Along(prob, 1)

\* the rows of the hidden state and of the next input after one step that embeds
\* the token tensor trg [B, 1]
StepDeps(r, trg) ==
    LET cnn_states == Tensor(3, 0, OwnRows(r.B))
        encoder    == init_rnn_states(cnn_states)
        proj_key   == Along(encoder.output, -1)
        src_mask   == Tensor(3, 0, NoRows(r.B))
        prev_embed == Along(Unsqueeze(trg, 2), -1)
        step       == forward_step(prev_embed, encoder.output, src_mask, proj_key,
                                   Tensor(3, 1, r.hidden_deps))
        prob       == Generator(Drop(step.pre_output, 1))
    IN  [hidden |-> step.hidden.deps, next_word |-> ArgMax(prob).deps]

\* dec = Decoder(...) as the double-supervision head builds it
NewDecoder(V) ==
    /\ dec.err = "unbuilt"
    /\ dec' = S2SDecoder([size |-> 512, dropout |-> 0, num_classes |-> V])
    /\ UNCHANGED <<model, net, last, stamp, ncalls, run, package, bpe>>

\* lines 2957-2978: train_batch up to its loop
TrainBatch(B, M, trg) ==
    /\ dec.err = "none"
    /\ run.mode = "idle"
    /\ \E valid \in ValidLengths(B, M) :
       run' = [NoRun EXCEPT !.mode = "loop", !.call = "train_batch", !.B = B, !.M = M,
                            !.max_len = Len(trg[1]), !.trg = trg, !.valid = valid,
                            !.src_mask = SrcMask(B, M, valid), !.proj_key = 1,
                            !.hidden_deps =
                                init_rnn_states(Tensor(3, 0, OwnRows(B))).hidden.deps,
                            !.token_deps = OwnRows(B)]
    /\ UNCHANGED <<model, net, last, stamp, ncalls, dec, package, bpe>>

\* lines 2994-3014: inference up to its loop
Inference(B, M) ==
    /\ dec.err = "none"
    /\ run.mode = "idle"
    /\ \E valid \in ValidLengths(B, M) :
       run' = [NoRun EXCEPT !.mode = "loop", !.call = "inference", !.B = B, !.M = M, !.max_len = M,
                            !.cur = [b \in 1..B |-> dec.sos_index], !.valid = valid,
                            !.src_mask = SrcMask(B, M, valid), !.proj_key = 1,
                            !.hidden_deps =
                                init_rnn_states(Tensor(3, 0, OwnRows(B))).hidden.deps,
                            !.token_deps = NoRows(B)]
    /\ UNCHANGED <<model, net, last, stamp, ncalls, dec, package, bpe>>

\* a variant of TrainTokens fed as the loop of inference is: sos first, then the
\* token of the previous position
TrainTokensFedBack(r) ==
    [b \in 1..r.B |-> IF r.i = 0 THEN dec.sos_index ELSE r.trg[b][r.i]]

\* prev_embed = trg_embed[:, i]: the tokens iteration r.i of train_batch embeds
TrainTokens(r) == [b \in 1..r.B |-> r.trg[b][r.i + 1]]

\* a variant of StepHidden that restarts every step from the bridge's final state
StepHiddenFromBridge(r) == 0

\* the hidden state passed to forward_step: the one the previous step returned
\* (`hidden` is rebound by each step), the bridge's final state before the first
StepHidden(r) == r.hidden

\* a variant of NextInput that keeps feeding the token of the step before
NextInputUnchanged(r, next_word) == r.cur

\* trg = next_word.unsqueeze(dim=1): the token the next step embeds
NextInput(r, next_word) == next_word

\* a variant of TrainStep whose index advances by two
TrainStepSkipping ==
    /\ run.mode = "loop" /\ run.call = "train_batch"
    /\ run.i < run.max_len
    /\ run' = [run EXCEPT !.fed = Append(@, TrainTokens(run)),
                          !.hidden_in = Append(@, StepHidden(run)),
                          !.keys_in = Append(@, run.proj_key),
                          !.hidden = run.i + 1,
                          !.rows = @ + 1,
                          !.i = @ + 2]
    /\ UNCHANGED <<model, net, last, stamp, ncalls, dec, package, bpe>>

\* one iteration of the loop of train_batch
TrainStep ==
    /\ run.mode = "loop" /\ run.call = "train_batch"
    /\ run.i < run.max_len
    /\ run' = [run EXCEPT !.fed = Append(@, TrainTokens(run)),
                          !.hidden_in = Append(@, StepHidden(run)),
                          !.keys_in = Append(@, run.proj_key),
                          !.hidden = run.i + 1,
                          !.hidden_deps =
                              StepDeps(run, Tensor(2, 0, OwnRows(run.B))).hidden,
                          !.rows = @ + 1,
                          !.i = @ + 1]
    /\ UNCHANGED <<model, net, last, stamp, ncalls, dec, package, bpe>>

\* one iteration of the loop of inference; next_word is the arg-max of the step
InferenceStep(next_word) ==
    /\ run.mode = "loop" /\ run.call = "inference"
    /\ run.i < run.max_len
    /\ run' = [run EXCEPT !.fed = Append(@, run.cur),
                          !.hidden_in = Append(@, StepHidden(run)),
                          !.keys_in = Append(@, run.proj_key),
                          !.hidden = run.i + 1,
                          !.hidden_deps =
                              StepDeps(run, Tensor(2, 0, run.token_deps)).hidden,
                          !.token_deps =
                              StepDeps(run, Tensor(2, 0, run.token_deps)).next_word,
                          !.rows = @ + 1,
                          !.emitted = Append(@, next_word),
                          !.cur = NextInput(run, next_word),
                          !.i = @ + 1]
    /\ UNCHANGED <<model, net, last, stamp, ncalls, dec, package, bpe>>

\* sos_prob[:, 0, self.sos_index] = 1.0 on a row of zeros
SosProb(d, B) == [b \in 1..B |-> [k \in Tokens(d) |-> IF k = d.sos_index THEN 1 ELSE 0]]

\* a variant of OutRows without the prepended sos row
OutRowsNoSos(r) == r.rows

\* the rows of the tensor the call returns once its loop is over
OutRows(r) == IF r.call = "inference" THEN r.rows + 1 ELSE r.rows

\* lines 2989-2991 and 3034-3042: concatenate, project, return
Return ==
    /\ run.mode = "loop"
    /\ run.i = run.max_len
    /\ run' = [run EXCEPT !.mode = "done",
                          !.out_rows = OutRows(run),
                          !.sos_prob = IF run.call = "inference"
                                       THEN SosProb(dec, run.B) ELSE << >>]
    /\ UNCHANGED <<model, net, last, stamp, ncalls, dec, package, bpe>>

\* the caller drops the returned tensor; the decoder is ready for its next call
Release ==
    /\ run.mode = "done"
    /\ run' = NoRun
    /\ UNCHANGED <<model, net, last, stamp, ncalls, dec, package, bpe>>

Targets(d, B, T) == [1..B -> [1..T -> Tokens(d)]]

\* an attention decoder: training and inference calls
NextDecoder ==
    \/ \E V \in DecoderVocab : NewDecoder(V)
    \/ /\ run.mode = "idle"
       /\ \E B \in BatchSizes, M \in 1..MaxEnc, T \in 1..MaxTrg :
             \E trg \in Targets(dec, B, T) : TrainBatch(B, M, trg)
    \/ /\ run.mode = "idle"
       /\ \E B \in BatchSizes, M \in 1..MaxEnc : Inference(B, M)
    \/ TrainStep
    \/ /\ run.call = "inference"
       /\ \E next_word \in [1..run.B -> Tokens(dec)] : InferenceStep(next_word)
    \/ Return
    \/ Release

(***************************************************************************)
(* Labels of src/data/bpe_labels.py: the label table built from the pieces *)
(* of a SentencePiece model, and parse from the tokenizer's output on.     *)
(* A dictionary is a function; assigning to an existing key overwrites.    *)
(* The pieces "a" and "b" stand for letters, "<sp>" for the space token    *)
(* U+2581.                                                                 *)
(***************************************************************************)
RemoveSpTokens == {"<unk>", "<s>", "</s>", "2"}
SpSpaceToken   == "<sp>"

NoLabels == [err |-> "unbuilt", pieces |-> << >>, label_list |-> << >>, labels_map |-> << >>]

\* the pieces a tokenizer model may hold, and its piece lists: pieces are distinct
PieceAlphabet == {"<unk>", SpSpaceToken, "a", "b", "2", "_"}
PieceLists ==
    UNION { {p \in [1..n -> PieceAlphabet] : \A i, j \in 1..n : p[i] = p[j] => i = j} :
            n \in 0..MaxPieces }

\* pieces[~pieces.piece_str.isin(self.remove_sp_tokens + [self.sp_space_token])]
FilterPieces(pieces) ==
    SelectSeq(pieces, LAMBDA p : p \notin RemoveSpTokens \cup {SpSpaceToken})

\* a variant of LabelList that appends the blank after the reserved labels
LabelListBlankLast(kept) == kept \o << "2", " ", "_" >>

\* label_list: "_" first, the kept pieces in order, then "2" and " "
LabelList(kept) == << "_" >> \o kept \o << "2", " " >>

\* self.labels_map[key] = len(self.labels_map), for the keys in order
RECURSIVE AssignAll(_, _, _)
AssignAll(map, keys, i) ==
    IF i > Len(keys) THEN map
    ELSE AssignAll((keys[i] :> Cardinality(DOMAIN map)) @@ map, keys, i + 1)

\* lines 52-76: Labels.__init__ from the pieces of the loaded model
Labels(pieces) ==
    LET kept       == FilterPieces(pieces)
        label_list == LabelList(kept)
        labels_map == AssignAll(("_" :> 0), kept \o << "2", " " >>, 1)
    IN  [err        |-> IF Cardinality(DOMAIN labels_map) = Len(label_list)
                        THEN "none" ELSE "AssertionError",
         pieces     |-> pieces,
         label_list |-> label_list,
         labels_map |-> labels_map]

\* no value is bound to `code` before the first assignment
Unbound == 0 - 1

\* lines 132-149: the loop of parse over sp_transcript from token i on; an exception
\* raised in the try block is logged and the loop continues
RECURSIVE ParseFrom(_, _, _, _, _)
ParseFrom(lbl, toks, i, transcript, code) ==
    IF i > Len(toks) THEN transcript
    ELSE LET token == toks[i] IN
         IF token \in RemoveSpTokens
         \* pass, then transcript.append(code) with the code of an earlier token
         THEN IF code = Unbound
              THEN ParseFrom(lbl, toks, i + 1, transcript, code)
              ELSE ParseFrom(lbl, toks, i + 1, Append(transcript, code), code)
         ELSE IF token = SpSpaceToken
         THEN ParseFrom(lbl, toks, i + 1, Append(transcript, lbl.labels_map[" "]),
                        lbl.labels_map[" "])
         ELSE IF token \notin DOMAIN lbl.labels_map
         \* KeyError
         THEN ParseFrom(lbl, toks, i + 1, transcript, code)
         ELSE LET c == IF transcript # << >> /\ transcript[Len(transcript)] = lbl.labels_map[token]
                       THEN lbl.labels_map["2"] ELSE lbl.labels_map[token]
              IN  ParseFrom(lbl, toks, i + 1, Append(transcript, c), c)

parse(lbl, sp_transcript) == ParseFrom(lbl, sp_transcript, 1, << >>, Unbound)

\* bpe = Labels(): an AssertionError leaves no object
NewLabels(pieces) ==
    /\ bpe.err = "unbuilt"
    /\ ncalls = 0
    /\ LET r == Labels(pieces) IN
       /\ bpe' = IF r.err = "none" THEN r ELSE bpe
       /\ last' = Call("Labels", r.err, "", last.args, 0, "", r)
    /\ ncalls' = ncalls + 1
    /\ UNCHANGED <<model, net, stamp, dec, run, package>>

\* bpe.parse(text), from the tokenizer's output sp_transcript on; parse keeps no
\* state, so one call is made on each object
Parse(sp_transcript) ==
    /\ bpe.err = "none"
    /\ last.op = "Labels"
    /\ last' = Call("parse", "none", "", last.args, Len(sp_transcript), "",
                    [sp_transcript |-> sp_transcript,
                     transcript |-> parse(bpe, sp_transcript)])
    /\ ncalls' = ncalls + 1
    /\ UNCHANGED <<model, net, stamp, dec, run, package, bpe>>

\* the tokens the tokenizer of an object may return: its pieces, the removed tokens
\* it names and the space token
ParseTokens(lbl) ==
    {lbl.pieces[i] : i \in 1..Len(lbl.pieces)} \cup {"<unk>", SpSpaceToken}

NextLabels ==
    \/ /\ ncalls = 0
       /\ \E pieces \in PieceLists : NewLabels(pieces)
    \/ /\ bpe.err = "none" /\ last.op = "Labels"
       /\ \E n \in 0..MaxLen : \E toks \in [1..n -> ParseTokens(bpe)] : Parse(toks)

Init ==
    /\ model = NoModel
    /\ net = NoNet
    /\ last = NoCall
    /\ stamp = 0
    /\ ncalls = 0
    /\ dec = NoDecoder
    /\ run = NoRun
    /\ package = NoPackage
    /\ bpe = NoLabels

\* a DeepSpeech model: construction, length projection, migrations
NextModel ==
    \/ /\ ncalls = 0
       /\ \E a \in ArgsSet : NewDeepSpeech(a)
    \/ \E L \in Lengths, mode \in DivModes : GetSeqLens(L, mode)
    \/ \E phoneme_count \in {1, 2} : AddPhonemes(phoneme_count)
    \/ AddDenoising
    \/ \E labels \in {3} : AddS2SDecoder(labels)
    \/ Serialize
    \/ LoadModelPackage
    \/ \E mode \in DivModes : Forward(100, mode)

SpecModel == Init /\ [][NextModel]_vars

\* a backbone built directly from a configuration record, then run
NextNet ==
    \/ /\ ncalls = 0
       /\ \E config \in NetConfigs : NewBackbone(config)
    \/ \E L \in Lengths : RunBackbone(L)
    \/ /\ net.decoder_type = "double_supervision"
       /\ \E L \in {1, 7, 100}, N \in BatchSizes, trg_len \in {0, MaxTrg} :
             DoubleSupervisionForward(L, N, trg_len)

SpecNet == Init /\ [][NextNet]_vars

SpecDecoder == Init /\ [][NextDecoder]_vars

\* targets that repeat one token: the number of steps does not depend on the tokens
UniformTargets(d, B, T) == {[b \in 1..B |-> [t \in 1..T |-> k]] : k \in Tokens(d)}

\* the calls of NextDecoder, the training calls on uniform targets
NextDecoderLive ==
    \/ \E V \in DecoderVocab : NewDecoder(V)
    \/ /\ run.mode = "idle"
       /\ \E B \in BatchSizes, M \in 1..MaxEnc, T \in 1..MaxTrg :
             \E trg \in UniformTargets(dec, B, T) : TrainBatch(B, M, trg)
    \/ /\ run.mode = "idle"
       /\ \E B \in BatchSizes, M \in 1..MaxEnc : Inference(B, M)
    \/ TrainStep
    \/ /\ run.call = "inference"
       /\ \E next_word \in [1..run.B -> Tokens(dec)] : InferenceStep(next_word)
    \/ Return
    \/ Release

\* a call that has entered its loop runs it to the end: the loop is sequential code
\* of one call, each iteration a finite computation, and the return follows it
SpecDecoderLive ==
    /\ Init /\ [][NextDecoderLive]_vars
    /\ WF_vars(TrainStep)
    /\ WF_vars(\E next_word \in [1..run.B -> Tokens(dec)] : InferenceStep(next_word))
    /\ WF_vars(Return)

Next == NextModel \/ NextNet \/ NextDecoder

Spec == Init /\ [][Next]_vars

(***************************************************************************)
(* Properties.                                                             *)
(***************************************************************************)
RECURSIVE StrideProductFrom(_, _)
\* the product of the strides of the convolutions of the blocks from the i-th on
StrideProductFrom(blocks, i) ==
    IF i > Len(blocks) THEN 1
    ELSE (IF blocks[i].repeat = 2 THEN blocks[i].stride * blocks[i].stride
          ELSE blocks[i].stride) * StrideProductFrom(blocks, i + 1)

StrideProduct(n) == StrideProductFrom(Backbone(n), 1)

\* the configured downsample factor: 1 when 'add_downsample' is absent
DownsampleFactor(config) == Get(config, "add_downsample", 1)

\* the heads a model owns
Heads(m) ==
    (IF m.fc.present THEN {"fc"} ELSE {})
    \cup (IF m.fc_phoneme.present THEN {"fc_phoneme"} ELSE {})
    \cup (IF m.rnns.denoise THEN {"denoise"} ELSE {})
    \cup (IF m.rnns.head # "none" THEN {m.rnns.head} ELSE {})

Migrations ==
    {"add_phonemes_to_model", "add_denoising_to_model", "add_s2s_decoder_to_model"}

\* C1: for every self-projected tag and every input length L, get_seq_lens(L)
\* returns the time dimension the realized backbone produces on a batch of length L
C1_ProjectedLengthIsRealized ==
    (last.op = "get_seq_lens" /\ model.rnn_type \in SelfProjectedTags)
        => (last.err = "none" /\ last.value = RealizedLength(model.rnns, last.L))

\* C2: the separable down-8 tag with width 512, depth 12 and 33 labels assembles,
\* and the assembled model projects input length 800 to 100
C2_Down8Scenario ==
    /\ (last.op = "DeepSpeech"
        /\ last.args.rnn_type = "cnn_residual_repeat_sep_down8"
        /\ last.args.cnn_width = 512 /\ last.args.nb_layers = 12 /\ last.args.labels = 33)
           => (last.err = "none" /\ model.built)
    /\ (last.op = "get_seq_lens" /\ last.L = 800
        /\ model.rnn_type = "cnn_residual_repeat_sep_down8"
        /\ model.cnn_width = 512 /\ model.hidden_layers = 12 /\ model.labels = 33)
           => last.value = 100

\* C3: a train_batch call makes exactly target_length steps, returns exactly
\* target_length rows, and step i embeds the ground-truth token of position i
C3_TeacherForcing ==
    run.call = "train_batch" =>
        /\ run.i <= Len(run.trg[1])
        /\ Len(run.fed) = run.i
        /\ run.rows = run.i
        /\ \A j \in 1..Len(run.fed) : \A b \in 1..run.B : run.fed[j][b] = run.trg[b][j]
        /\ run.mode = "done" => (run.i = Len(run.trg[1]) /\ run.out_rows = Len(run.trg[1]))

C3_Witness ==
    /\ run.call = "train_batch" /\ run.mode = "done"
    /\ run.B = 2 /\ run.out_rows = 2 /\ run.M = 1
    /\ run.trg[1] # run.trg[2]

\* C4: an inference call on a backbone output of length M makes exactly M steps for
\* every sequence whatever tokens are emitted, and returns M + 1 rows whose row 0
\* has probability 1 at sos_index and 0 elsewhere
C4_InferenceLength ==
    run.call = "inference" =>
        /\ run.i <= run.M
        /\ Len(run.fed) = run.i
        /\ Len(run.emitted) = run.i
        /\ run.rows = run.i
        /\ run.mode = "done" =>
              /\ run.i = run.M
              /\ run.out_rows = run.M + 1
              /\ \A b \in 1..run.B : \A k \in Tokens(dec) :
                    run.sos_prob[b][k] = IF k = dec.sos_index THEN 1 ELSE 0

\* a finished inference of two steps in which one sequence emitted eos at once
C4_Witness ==
    /\ run.call = "inference" /\ run.mode = "done"
    /\ run.B = 2 /\ run.M = 2 /\ run.out_rows = 3
    /\ run.emitted[1][1] = dec.tgt_vocab - 1
    /\ run.emitted[1][2] # dec.tgt_vocab - 1

\* C5: with a vocabulary of at least 3 the double-supervision head has one CTC class
\* fewer than attention classes, and its attention decoder starts at num_classes - 2
C5_DoubleSupervisionVocab ==
    (net.err = "none" /\ net.decoder_type = "double_supervision" /\ net.num_classes >= 3)
        => /\ net.ctc_fc.out_ch = net.num_classes - 1
           /\ net.decoder.tgt_vocab = net.num_classes
           /\ net.decoder.sos_index = net.num_classes - 2

C5_Witness ==
    /\ net.err = "none" /\ net.decoder_type = "double_supervision"
    /\ net.num_classes >= 3
    /\ net.ctc_fc.type = "Conv1d" /\ net.decoder.err = "none"

\* C6: every block built with skip=true has stride 1, as many output as input
\* channels, and returns a tensor as long as its input, for every input length
C6_SkipBlocksKeepShape ==
    net.err = "none" =>
        \A i \in 1..Len(Backbone(net)) :
            LET b == Backbone(net)[i] IN
            b.skip =>
                /\ b.stride = 1
                /\ b.in_ch = b.out_ch
                /\ \A L \in Lengths :
                      SequentialForward(BlockModules(b), [c |-> b.in_ch, l |-> L])
                          = [c |-> b.in_ch, l |-> L]

\* C7: the strides of the realized backbone multiply to 2 times the downsample factor
C7_StrideProduct ==
    net.err = "none" => StrideProduct(net) = 2 * DownsampleFactor(last.args)

\* C8: no backbone is built from a configuration whose strides do not multiply to
\* 2 times a downsample factor of 1, 2 or 4, nor from a request for an attention or
\* double-supervision head over an empty vocabulary
C8_RejectsInvalidConfig ==
    net.err = "none" =>
        /\ DownsampleFactor(last.args) \in {1, 2, 4}
        /\ StrideProduct(net) = 2 * DownsampleFactor(last.args)
        /\ ~(DecoderType(last.args) \in {"attention", "double_supervision"}
             /\ NumClasses(last.args) = 0)

C10_PhonemesFrame ==
    [][(ncalls' = ncalls + 1 /\ last'.op = "add_phonemes_to_model")
          => /\ last'.err = "none"
             /\ model' = [model EXCEPT !.has_phoneme_count = model'.has_phoneme_count,
                                       !.phoneme_count = model'.phoneme_count,
                                       !.fc_phoneme = model'.fc_phoneme]
             /\ model'.phoneme_count = last'.args.phoneme_count
             /\ model'.fc_phoneme.out_ch = last'.args.phoneme_count]_vars

\* the phoneme head added twice to a model built without one
C10_Witness ==
    /\ last.op = "add_phonemes_to_model" /\ last.prev = "add_phonemes_to_model"
    /\ model.fc_phoneme.present /\ model.fc.present
    /\ model.fc_phoneme.params > model.rnns.params
    /\ model.fc.params = model.rnns.params

\* C11: add_denoising_to_model called on a model whose tag is not the separable
\* down-8 tag raises and leaves the whole model (tag, blocks, heads, gradient
\* flags) as it was
C11_DenoisingRejects ==
    [][(/\ ncalls' = ncalls + 1
        /\ last'.op = "add_denoising_to_model"
        /\ model.rnn_type # "cnn_residual_repeat_sep_down8")
          => (last'.err # "none" /\ model' = model)]_vars

\* the migration refused on a built model that already owns a phoneme head
C11_Witness ==
    /\ last.op = "add_denoising_to_model" /\ last.err = "AssertionError"
    /\ model.built /\ model.fc_phoneme.present
    /\ model.rnn_type # "cnn_residual_repeat_sep_down8"

(***************************************************************************)
(* The migrations applied to a pre-trained model.  The migrations are      *)
(* static methods that take a model object; the object handed to them here *)
(* is the one the tag's branch of DeepSpeech.__init__ assembles when its   *)
(* DotDict carries 'decoder_girth' (which only the transformer branch's    *)
(* does: from every other ResidualRepeat branch the constructor raises,    *)
(* and NextModel never reaches such a model).                              *)
(***************************************************************************)
PretrainedTags ==
    {"cnn_residual_repeat_sep_down8",
     "cnn_residual_repeat_sep_down8_groups8",
     "cnn_residual_repeat_sep_down8_groups8_plain_gru",
     "cnn_residual_repeat_sep_down8_denoise"}

PretrainedDepths == {3, 6, 12}

PretrainedArgs ==
    [rnn_type : PretrainedTags, labels : {33}, rnn_hidden_size : {512},
     nb_layers : PretrainedDepths, kernel_size : {7}, cnn_width : Widths,
     phoneme_count : {0, 2}, decoder_layers : {4}, decoder_girth : {1}]

\* DeepSpeech(**a) with config.decoder_girth readable
Pretrained(a, id) ==
    [DeepSpeech(a, id) EXCEPT
       !.rnns = ResidualRepeatWav2Letter(
                    TagConfig(a) @@ [decoder_girth |-> a.decoder_girth], id)]

\* model = a pre-trained model of one of the tags
LoadPretrained(a) ==
    /\ ~model.built
    /\ ncalls = 0
    /\ Pretrained(a, stamp + 1).rnns.err = "none"
    /\ model' = Pretrained(a, stamp + 1)
    /\ stamp' = stamp + 1
    /\ last' = Call("DeepSpeech", "none", "", a, 0, "", 0)
    /\ ncalls' = ncalls + 1
    /\ UNCHANGED <<net, dec, run, package, bpe>>

NextPretrained ==
    \/ /\ ncalls = 0
       /\ \E a \in PretrainedArgs : LoadPretrained(a)
    \/ \E phoneme_count \in {1, 2} : AddPhonemes(phoneme_count)
    \/ AddDenoising
    \/ \E labels \in {3} : AddS2SDecoder(labels)
    \/ \E mode \in DivModes : Forward(100, mode)

SpecPretrained == Init /\ [][NextPretrained]_vars

Trainable(m) ==
    (IF m.fc.present THEN {"fc"} ELSE {})
    \cup (IF m.fc_phoneme.present THEN {"fc_phoneme"} ELSE {})
    \cup (IF m.rnns.has_layers THEN {"layers"} ELSE {})
    \cup (IF m.rnns.denoise THEN {"denoise"} ELSE {})
    \cup (IF m.rnns.denoise /\ ~m.rnns.frozen THEN {"encoder"} ELSE {})
    \cup (IF m.rnns.head # "none" THEN {m.rnns.head} ELSE {})

PackageHeads(sd) ==
    {IF name = "rnns.decoder" THEN sd[name].shape[1] ELSE IF name = "rnns.denoise" THEN "denoise" ELSE name :
        name \in (DOMAIN sd) \cap {"fc", "fc_phoneme", "rnns.denoise", "rnns.decoder"}}

\* C14: load_model_package applied to a package serialize returned raises nothing and
\* returns a model with the tag and hyper-parameters of the package, the heads of
\* the saved model and the parameter names and shapes of the saved state_dict
C14_SerializeRoundTrip ==
    [][(ncalls' = ncalls + 1 /\ last'.op = "load_model_package")
          => /\ last'.err = "none"
             /\ model'.rnn_type = package.rnn_type
             /\ serialize(model') = package
             /\ Heads(model') = PackageHeads(package.state_dict)]_vars

\* C15: every tag that builds a ResidualRepeatWav2Letter assembles without error
C15_EveryTagAssembles ==
    (last.op = "DeepSpeech" /\ last.args.rnn_type \in ResidualRepeatTags)
        => (last.err = "none" /\ model.built /\ model.rnn_type = last.args.rnn_type)

Range(f) == {f[i] : i \in DOMAIN f}

\* C16: forward on an assembled, possibly migrated, model raises nothing and returns
\* the main logits and the projected lengths, the phoneme logits when the model owns
\* a phoneme head (as long as the main logits) and the mask when it owns a denoiser
C16_ForwardCompletes ==
    last.op = "forward" =>
        /\ last.err = "none"
        /\ {"x", "output_lengths"} \subseteq Range(last.value.outs)
        /\ model.fc_phoneme.present
              => ("x_phoneme" \in Range(last.value.outs)
                  /\ last.value.T_phoneme = last.value.T)
        /\ model.rnns.denoise => "denoise_mask" \in Range(last.value.outs)

\* the tags whose length get_seq_lens projects through self.conv
LegacyProjectedTags == Tags \ (SelfProjectedTags \cup {DenoiseTag})

\* C17: for every tag projected through the legacy two-layer front-end and every
\* input length L, get_seq_lens(L) returns the time dimension the tag's realized
\* backbone produces on a batch of length L
C17_LegacyProjectionIsRealized ==
    (last.op = "get_seq_lens" /\ model.rnn_type \in LegacyProjectedTags)
        => (last.err = "none" /\ last.value = RealizedLength(model.rnns, last.L))

\* floor((L + 2*pad - dilation*(kernel-1) - 1) / stride + 1) at a plain Conv1d, L elsewhere
FloorStep(L, m) ==
    IF m.type = "Conv1d"
    THEN (L + 2 * m.padding - m.dilation * (m.kernel_size - 1) - 1) \div m.stride + 1
    ELSE L

RECURSIVE FloorFoldFrom(_, _, _)
FloorFoldFrom(modules, i, L) ==
    IF i > Len(modules) THEN L
    ELSE LET n == FloorStep(L, modules[i])
         IN  IF n = L THEN FloorFoldFrom(modules, i + 1, L)
             ELSE FloorFoldFrom(modules, i + 1, n)

RECURSIVE FloorFoldBlocks(_, _, _)
\* the floored step applied module by module to the blocks in forward order
FloorFoldBlocks(blocks, i, L) ==
    IF i > Len(blocks) THEN L
    ELSE LET n == FloorFoldFrom(BlockModules(blocks[i]), 1, L)
         IN  IF n = L THEN FloorFoldBlocks(blocks, i + 1, L)
             ELSE FloorFoldBlocks(blocks, i + 1, n)

\* C18: for the tags projected from their own backbone get_seq_lens returns the
\* integer obtained by folding over the backbone's modules in forward order, a
\* plain Conv1d replacing L by floor((L + 2*pad - dilation*(kernel-1) - 1)/stride + 1)
\* and every other module, the head included, leaving L unchanged
C18_FloorAtEveryStep ==
    (last.op = "get_seq_lens" /\ model.rnn_type \in SelfProjectedTags \cup {DenoiseTag})
        => /\ last.err = "none"
           /\ last.value \in Nat
           /\ last.value = FloorFoldBlocks(Backbone(model.rnns), 1, last.L)

\* a length whose intermediate quotients are not whole (7 -> 4 -> 2.5 -> 1.75), folded
\* with true division through three strided convolutions
C18_Witness ==
    /\ last.op = "get_seq_lens" /\ last.err = "none"
    /\ model.rnn_type \in SelfProjectedTags
    /\ last.mode = "true" /\ last.L = 7 /\ last.value = 1
    /\ model.hidden_layers = 12 /\ model.kernel_size = 7

\* the constructor arguments a model was assembled from, with the tag replaced
ArgsOf(m, tag) ==
    [rnn_type |-> tag, labels |-> m.labels, rnn_hidden_size |-> m.hidden_size,
     nb_layers |-> m.hidden_layers, kernel_size |-> m.kernel_size,
     cnn_width |-> m.cnn_width, phoneme_count |-> m.phoneme_count,
     decoder_layers |-> m.decoder_layers, decoder_girth |-> m.decoder_girth]

IsBridge(b, n) ==
    b.kernel_size = EpilogKernel /\ b.padding = EpilogPadding /\ ~b.skip
    /\ b.out_ch = n.head_in

\* the positions of the non-residual blocks that double the width
Doublings(blocks) ==
    {i \in 1..Len(blocks) : ~blocks[i].skip /\ blocks[i].out_ch = 2 * blocks[i].in_ch}

\* C20: in every backbone the constructor builds, the last block leaves the width
\* the head consumes; the pointwise, recurrent and transformer heads come after a
\* bridge block that ends at the head's hidden size; and with vary_cnn_width exactly
\* one non-residual block doubles the width, which the bridge then receives
C20_WidthsWired ==
    (last.op = "ResidualRepeatWav2Letter" /\ last.err = "none") =>
        LET blocks == Backbone(net)
            n      == Len(blocks)
            bridge == IF net.decoder_type = "pointwise" THEN n - 1 ELSE n
        IN  /\ LastWidth(net) = net.head_in
            /\ net.decoder_type \in {"pointwise", "plain_gru", "transformer"}
                  => (bridge >= 2 /\ IsBridge(blocks[bridge], net)
                      /\ blocks[bridge].in_ch = blocks[bridge - 1].out_ch)
            /\ Get(last.args, "vary_cnn_width", FALSE)
                  => /\ Cardinality(Doublings(blocks)) = 1
                     /\ \A i \in Doublings(blocks) :
                           /\ i < bridge
                           /\ blocks[i + 1].in_ch = blocks[i].out_ch
                           /\ blocks[bridge].in_ch = 2 * Width0(last.args)

\* the positions, in the block sequence, of sub-index 0 of the stages that downsample
DownsamplePositions(config) ==
    LET n == config["repeat_layers"] \div 3
        o == Bool2Int(Get(config, "inverted_bottleneck", FALSE))
        v == Bool2Int(Get(config, "vary_cnn_width", FALSE))
    IN  IF n = 0 THEN {}
        ELSE {2 + o + n : j \in DownsampledBlocks(config) \cap {1}}
             \cup {3 + o + 2 * n + v : j \in DownsampledBlocks(config) \cap {2}}

\* C21: the prolog is the first block, with stride 2, no skip and no squeeze-excite;
\* the other stride-2 blocks stand exactly at sub-index 0 of stage 1 (add_downsample
\* 2 or 4) and of stage 2 (add_downsample 4), each with no skip, no squeeze-excite and
\* repeat 1, and each immediately followed by the stride-1 residual block of its position
C21_DownsamplingBlocks ==
    net.err = "none" =>
        LET blocks == Backbone(net)
            strided == {i \in 2..Len(blocks) : blocks[i].stride = 2}
        IN  /\ blocks[1].in_ch = InputChannels /\ blocks[1].stride = 2
            /\ ~blocks[1].skip /\ ~HasSE(blocks[1].se_ratio)
            /\ strided = DownsamplePositions(last.args)
            /\ \A i \in strided :
                  /\ ~blocks[i].skip /\ ~HasSE(blocks[i].se_ratio) /\ blocks[i].repeat = 1
                  /\ i < Len(blocks)
                  /\ blocks[i + 1].stride = 1
                  /\ blocks[i + 1].skip = last.args["skip"]
                  /\ blocks[i + 1].se_ratio = last.args["se_ratio"]

\* C22: in inference the first step is fed sos_index for every sequence, and every
\* later step is fed, for each sequence, the arg-max the step before produced for it
C22_ArgMaxFedBack ==
    run.call = "inference" =>
        /\ Len(run.fed) = run.i /\ Len(run.emitted) = run.i
        /\ \A j \in 1..Len(run.fed) : \A b \in 1..run.B :
              run.fed[j][b] = IF j = 1 THEN dec.sos_index ELSE run.emitted[j - 1][b]
        /\ \A b \in 1..run.B :
              run.cur[b] = IF run.i = 0 THEN dec.sos_index ELSE run.emitted[run.i][b]

\* three steps of a batch of two whose sequences emitted different tokens, none of
\* them the token they were fed
C22_Witness ==
    /\ run.call = "inference" /\ run.B = 2 /\ run.i = 3
    /\ run.emitted[1][1] # run.emitted[1][2]
    /\ run.emitted[1][1] # dec.sos_index /\ run.emitted[2][1] # run.emitted[1][1]
    /\ run.fed[3] = run.emitted[2]

\* C23: in both decoding modes the first step starts from the final state of the
\* bridge computed before the loop, step t+1 starts from exactly the hidden state
\* step t returned (and, in inference, after the token of step t exists), and every
\* step is handed the attention keys computed once before the loop
C23_HiddenStateChain ==
    run.mode \in {"loop", "done"} =>
        /\ dec.num_encoder_layers = dec.num_decoder_layers
        /\ run.proj_key = 1
        /\ Len(run.hidden_in) = run.i /\ Len(run.keys_in) = run.i
        /\ run.hidden = run.i /\ run.rows = run.i
        /\ \A j \in 1..run.i :
              /\ run.hidden_in[j] = j - 1
              /\ run.keys_in[j] = run.proj_key
        /\ run.call = "inference" => Len(run.emitted) = run.i /\ Len(run.fed) = run.i

\* a teacher-forced call that has run three steps
C23_Witness ==
    /\ run.call = "train_batch" /\ run.mode = "loop" /\ run.i = 3
    /\ run.hidden_in = << 0, 1, 2 >> /\ run.hidden = 3

\* C24: inside the attention decoder the hidden state and the token of a sequence
\* are computed, at every step, from that sequence's own row of the encoder states,
\* of the previous hidden state and of the previous token only
C24_NoBatchCoupling ==
    run.mode \in {"loop", "done"} =>
        \A b \in 1..run.B :
            /\ run.hidden_deps[b] \subseteq {b}
            /\ run.token_deps[b] \subseteq {b}

\* a batch of two after two steps of inference: each token and each hidden state
\* was computed from its own sequence, and from nothing else
C24_Witness ==
    /\ run.call = "inference" /\ run.B = 2 /\ run.i = 2
    /\ run.hidden_deps = OwnRows(2) /\ run.token_deps = OwnRows(2)

\* C25: in train_batch and in inference the mask handed to the attention marks
\* every encoder position of every batch element valid, whatever the valid lengths
\* of the items are, so padding frames take part in the attention as well
C25_SourceMaskAllValid ==
    run.mode \in {"loop", "done"} =>
        /\ DOMAIN run.src_mask = 1..run.B
        /\ \A b \in 1..run.B :
              /\ DOMAIN run.src_mask[b] = 1..run.M
              /\ \A t \in 1..run.M : run.src_mask[b][t] = 1

\* a batch of two whose second item has two padding frames, in each mode's loop
C25_Witness ==
    /\ run.call \in {"train_batch", "inference"} /\ run.i >= 1
    /\ run.B = 2 /\ run.M = 3 /\ run.valid[2] = 1
    /\ run.src_mask[2][3] = 1

(***************************************************************************)
(* BahdanauAttention.forward on one row: the weights.                      *)
(* A score is an integer or minus infinity; exp is modelled by the exact   *)
(* positive weight 2^v, exp(-inf) by 0, and a weight by the fraction       *)
(* num/den, 0/0 being NaN.                                                 *)
(***************************************************************************)
ScoreValues == 0..1

NoMask == [present |-> FALSE, at |-> << >>]

\* the masks a call may be given over M positions, and no mask at all
Masks(M) == {[present |-> TRUE, at |-> m] : m \in [1..M -> {0, 1}]} \cup {NoMask}

\* a variant of masked_fill that fills the masked scores with 0
masked_fill_zero(scores, mask) ==
    [t \in DOMAIN scores |->
        IF mask[t] = 0 THEN [neg_inf |-> FALSE, v |-> 0] ELSE [neg_inf |-> FALSE, v |-> scores[t]]]

\* scores.data.masked_fill_(mask == 0, -float('inf'))
masked_fill(scores, mask) ==
    [t \in DOMAIN scores |->
        IF mask[t] = 0 THEN [neg_inf |-> TRUE, v |-> 0] ELSE [neg_inf |-> FALSE, v |-> scores[t]]]

RECURSIVE SumTo(_, _)
SumTo(w, n) == IF n = 0 THEN 0 ELSE w[n] + SumTo(w, n - 1)

\* F.softmax(scores, dim=-1)
softmax(scores) ==
    LET w   == [t \in DOMAIN scores |-> IF scores[t].neg_inf THEN 0 ELSE 2 ^ scores[t].v]
        den == SumTo(w, Len(scores))
    IN  [t \in DOMAIN scores |-> [num |-> w[t], den |-> den]]

\* lines 2841-2868: the assert on the mask, then the weights alphas
AttentionWeights(scores, mask) ==
    IF ~mask.present
    THEN [err |-> "AssertionError", alphas |-> << >>]
    ELSE [err |-> "none", alphas |-> softmax(masked_fill(scores, mask.at))]

\* one call of the attention on a row of scores
Attention(scores, mask) ==
    /\ ncalls < MaxCalls
    /\ LET r == AttentionWeights(scores, mask) IN
       last' = Call("attention", r.err, "", last.args, Len(scores), "",
                    [scores |-> scores, mask |-> mask, alphas |-> r.alphas])
    /\ ncalls' = ncalls + 1
    /\ UNCHANGED <<model, net, stamp, dec, run, package, bpe>>

NextAttention ==
    \E M \in 1..MaxEnc : \E scores \in [1..M -> ScoreValues], mask \in Masks(M) :
        Attention(scores, mask)

SpecAttention == Init /\ [][NextAttention]_vars

SpecLabels == Init /\ [][NextLabels]_vars

\* C26 as stated: a position whose mask entry is 0 gets the weight exactly 0, a
\* call without a mask is rejected, and the weights are non-negative and sum to 1
\* whenever a position is unmasked
C26_MaskedWeightIsZero ==
    last.op = "attention" =>
        LET v == last.value IN
        /\ ~v.mask.present => last.err # "none"
        /\ v.mask.present =>
              /\ last.err = "none"
              /\ \A t \in 1..last.L :
                    v.mask.at[t] = 0 => v.alphas[t].num = 0 /\ v.alphas[t].den > 0
              /\ (\E t \in 1..last.L : v.mask.at[t] # 0) =>
                    /\ \A t \in 1..last.L : v.alphas[t].num >= 0 /\ v.alphas[t].den > 0
                    /\ SumTo([t \in 1..last.L |-> v.alphas[t].num], last.L) = v.alphas[1].den

\* C26 amended: whenever a position is unmasked, the positions whose mask entry is
\* 0 get the weight exactly 0 and the weights are non-negative and sum to 1; a
\* call without a mask is rejected
C26_MaskedWeightIsZeroUnlessAllMasked ==
    last.op = "attention" =>
        LET v == last.value IN
        /\ ~v.mask.present => last.err # "none"
        /\ v.mask.present =>
              /\ last.err = "none"
              /\ (\E t \in 1..last.L : v.mask.at[t] # 0) =>
                    /\ \A t \in 1..last.L :
                          v.mask.at[t] = 0 => v.alphas[t].num = 0 /\ v.alphas[t].den > 0
                    /\ \A t \in 1..last.L : v.alphas[t].num >= 0 /\ v.alphas[t].den > 0
                    /\ SumTo([t \in 1..last.L |-> v.alphas[t].num], last.L) = v.alphas[1].den

\* three positions, the middle one masked, the other two with different scores:
\* weights 1/3, 0, 2/3
C26_Witness ==
    /\ last.op = "attention" /\ last.err = "none" /\ last.L = 3
    /\ last.value.mask.at = << 1, 0, 1 >>
    /\ last.value.scores = << 0, 1, 1 >>
    /\ last.value.alphas = << [num |-> 1, den |-> 3], [num |-> 0, den |-> 3], [num |-> 2, den |-> 3] >>

\* C27: with a vocabulary of at least 3, a forward pass of the double-supervision
\* head that the backbone completes returns the CTC output and the attention
\* output; the CTC projection and the attention decoder both read the hidden states
\* of the recurrent CTC decoder, never the backbone's output, and the CTC output is
\* as long as the backbone's output
C27_DoubleSupervisionOutputs ==
    (last.op = "double_supervision" /\ net.num_classes >= 3 /\ last.value.T # Err) =>
        LET v == last.value IN
        /\ last.err = "none"
        /\ Len(v.outs) = 2
        /\ v.outs[1].src = "ctc_fc" /\ v.outs[2].src = "s2s_decoder"
        /\ v.fc_in = "ctc_decoder" /\ v.s2s_in = "ctc_decoder"
        /\ v.T = RealizedLength(net, last.L)
        /\ v.outs[1].dims = << Dim("N", v.N), Dim("T", v.T), Dim("C", net.num_classes - 1) >>

\* a training pass on two inputs of 100 frames with targets of the longest length:
\* thirteen frames leave the backbone
C27_Witness ==
    /\ last.op = "double_supervision" /\ last.err = "none" /\ last.mode = "train"
    /\ net.num_classes = 4 /\ last.args["repeat_layers"] = 3
    /\ last.L = 100 /\ last.value.N = 2 /\ last.value.trg_len = MaxTrg
    /\ last.value.outs[1].dims[2] = Dim("T", 13)
    /\ last.value.outs[2].dims[2] = Dim("T", MaxTrg)

\* C28: every decode call terminates: the step index starts at 0, grows by exactly
\* one per step, never passes its static bound (the target length in training, the
\* number of encoder positions in inference), and the call reaches its return
C28_DecodeTerminates ==
    /\ [](run.mode \in {"loop", "done"} =>
             /\ run.i <= run.max_len
             /\ run.max_len = IF run.call = "train_batch" THEN Len(run.trg[1]) ELSE run.M)
    /\ [][/\ (run.mode = "idle" /\ run'.mode = "loop") => run'.i = 0
          /\ (run.mode = "loop" /\ run'.mode = "loop" /\ run' # run) =>
                (run'.i = run.i + 1 /\ run'.max_len = run.max_len)
          /\ run'.mode = "done" => (run.mode \in {"loop", "done"} /\ run'.i = run.max_len)]_vars
    /\ (run.mode = "loop") ~> (run.mode = "done")

\* a call returned after as many steps as its bound allows, the largest bound
C28_Witness ==
    /\ run.mode = "done" /\ run.i = run.max_len /\ run.max_len = MaxEnc
    /\ run.call = "inference" /\ run.rows = MaxEnc

\* C29: parse emits one code for every token that is not a removed token and none
\* for a removed token, a token whose code equals the code emitted just before it is
\* emitted as the code of "2", and no code but the space code stands twice in a row
C29_ParseEmitsOnePerToken ==
    last.op = "parse" =>
        LET toks == last.value.sp_transcript
            tr   == last.value.transcript
            kept == SelectSeq(toks, LAMBDA t : t \notin RemoveSpTokens)
        IN  /\ Len(tr) = Len(kept)
            /\ \A i \in 1..Len(kept) :
                  tr[i] = IF kept[i] = SpSpaceToken THEN bpe.labels_map[" "]
                          ELSE IF i > 1 /\ tr[i - 1] = bpe.labels_map[kept[i]]
                          THEN bpe.labels_map["2"]
                          ELSE bpe.labels_map[kept[i]]
            /\ \A i \in 1..(Len(tr) - 1) :
                  tr[i] = tr[i + 1] => tr[i] = bpe.labels_map[" "]

\* C30: a constructed Labels has "_" at index 0, "2" and " " at the last two
\* indices in that order, and labels_map is a bijection from the labels onto the
\* indices of label_list with label_list[labels_map[k]] = k (indices from 0)
C30_LabelTable ==
    bpe.err = "none" =>
        LET N == Len(bpe.label_list)
            m == bpe.labels_map
        IN  /\ bpe.label_list[1] = "_" /\ m["_"] = 0
            /\ bpe.label_list[N - 1] = "2" /\ m["2"] = N - 2
            /\ bpe.label_list[N] = " " /\ m[" "] = N - 1
            /\ DOMAIN m = {bpe.label_list[i] : i \in 1..N}
            /\ {m[k] : k \in DOMAIN m} = 0..(N - 1)
            /\ Cardinality(DOMAIN m) = N
            /\ \A k \in DOMAIN m : bpe.label_list[m[k] + 1] = k

\* a model whose pieces hold removed tokens, the space token and two letters
C30_Witness ==
    /\ bpe.err = "none"
    /\ bpe.pieces = << "<unk>", "a", SpSpaceToken >>
    /\ bpe.label_list = << "_", "a", "2", " " >>
    /\ bpe.labels_map["a"] = 1
====
